---------------------------- MODULE Spec2Model ----------------------------
(***************************************************************************)
(* A model of the concentric-ring marker detector CCircleDetect            *)
(* (src/jockeys/cameradetection/src/imageproc/CCircleDetect.cpp).          *)
(*                                                                         *)
(* One action is one whole findSegment call.  The label buffer, the queue, *)
(* the segment array and the controller fields (threshold, numFailed,      *)
(* lastThreshold, lastTrackOK) are the detector's state; the frame is the  *)
(* caller's buffer, which the call reads and writes.                       *)
(*                                                                         *)
(* float values are kept in thousandths (fixed point, truncated); M_PI is  *)
(* 3142 thousandths.  The frames of the model stay away from the edges of  *)
(* the tolerance bands, where the rounding of a float could decide.        *)
(* SSegment fields that the code only writes and never reads (v0, v1,      *)
(* bwRatio, angle, horizontal) are left out of the segment record.         *)
(***************************************************************************)
EXTENDS Integers, Sequences, FiniteSets, TLC

(***************************************************************************)
(* Bounds of the model.                                                    *)
(***************************************************************************)
\* frame width and height given to the constructor (wi, he)
W == 10
H == 17
\* capacity of segmentArray (MAX_SEGMENTS of CCircleDetect.h), scaled down
MAX_SEGMENTS == 6
\* the indices of segmentArray's slots and, last, of the memory one slot
\* past its end, which no call may touch
Slots == 0 .. MAX_SEGMENTS

(***************************************************************************)
(* Program constants, as the constructor sets them.                        *)
(***************************************************************************)
minSize == 10
circularToleranceMilli == 300
ratioToleranceMilli == 400
circularityToleranceMilli == 100
centerDistanceToleranceAbs == 5
centerDistanceToleranceRatioMilli == 1100
maxThreshold == 3 * 256
PiMilli == 3142
BORDER == -1000

\* diamRatio given to the constructor: inner vs. outer diameter, a fraction
diameterRatio == [num |-> 2, den |-> 3]

Sq(n) == n * n
Abs(n) == IF n < 0 THEN -n ELSE n
Min2(a, b) == IF a < b THEN a ELSE b
Max2(a, b) == IF a > b THEN a ELSE b

\* pi * (1 - r^2) / 4, pi / 4 and (1 - r^2) / r^2 with r = diameterRatio
outerAreaRatioMilli ==
    (PiMilli * (Sq(diameterRatio.den) - Sq(diameterRatio.num)))
        \div (4 * Sq(diameterRatio.den))
innerAreaRatioMilli == PiMilli \div 4
areasRatio ==
    [num |-> Sq(diameterRatio.den) - Sq(diameterRatio.num),
     den |-> Sq(diameterRatio.num)]

\* sqrt of a float in thousandths: the largest r with r * r <= n
RECURSIVE SqrtSearch(_, _, _)
SqrtSearch(n, lo, hi) ==
    IF lo >= hi THEN lo
    ELSE LET mid == (lo + hi + 1) \div 2
         IN  IF mid * mid <= n THEN SqrtSearch(n, mid, hi)
             ELSE SqrtSearch(n, lo, mid - 1)
ISqrt(n) == IF n <= 0 THEN 0 ELSE SqrtSearch(n, 0, Min2(n, 46340))
\* sqrt(v) for v in thousandths, in thousandths
SqrtMilli(v) == ISqrt(v * 1000)

(***************************************************************************)
(* Frames: packed 3-byte pixels, row-major.                                *)
(***************************************************************************)
Pix(frame, pos) == frame[pos][1] + frame[pos][2] + frame[pos][3]

\* an (uninitialised) SSegment as a placeholder: no code path reads a slot
\* of segmentArray, or a field of the local result, before writing it
NoSegment ==
    [x |-> 0, y |-> 0, size |-> 0, minx |-> 0, maxx |-> 0, miny |-> 0,
     maxy |-> 0, mean |-> 0, type |-> 0, roundness |-> 0, round |-> FALSE,
     valid |-> FALSE, m0 |-> 0, m1 |-> 0]


(***************************************************************************)
(* examineSegment: one flood fill.  st is the detector's working state:    *)
(* buffer, queue (its cells [0, queueEnd), as a sequence), queueStart,     *)
(* queueEnd, queueOldStart, numSegments, segmentArray, threshold.          *)
(***************************************************************************)
\* Classify that takes a channel sum equal to the threshold for light
ClassifyStrict(image, pos, threshold) ==
    IF Pix(image, pos) >= threshold THEN -1 ELSE -2

\* ((ptr[0] + ptr[1] + ptr[2]) > threshold) - 2
Classify(image, pos, threshold) ==
    IF Pix(image, pos) > threshold THEN -1 ELSE -2

\* Visit that moves the lower bound of the rows on a push to the left
VisitAskew(f, pos, dir, type, label, image, threshold, width) ==
    LET b1 == IF f.buffer[pos] = 0
              THEN [f.buffer EXCEPT ![pos] = Classify(image, pos, threshold)]
              ELSE f.buffer
    IN  IF b1[pos] = type
        THEN [buffer |-> [b1 EXCEPT ![pos] = label],
              queue |-> Append(f.queue, pos),
              queueStart |-> f.queueStart,
              maxx |-> IF dir = 1 THEN Max2(f.maxx, pos % width) ELSE f.maxx,
              minx |-> IF dir = 2 THEN Min2(f.minx, pos % width) ELSE f.minx,
              miny |-> IF dir = 2 THEN Min2(f.miny, pos \div width) ELSE f.miny,
              maxy |-> IF dir = 4 THEN Max2(f.maxy, pos \div width) ELSE f.maxy]
        ELSE [f EXCEPT !.buffer = b1]

\* Visit that also takes over a neighbour that holds another segment's
\* label
VisitOver(f, pos, dir, type, label, image, threshold, width) ==
    LET b1 == IF f.buffer[pos] = 0
              THEN [f.buffer EXCEPT ![pos] = Classify(image, pos, threshold)]
              ELSE f.buffer
    IN  IF b1[pos] = type \/ (b1[pos] > 0 /\ b1[pos] # label)
        THEN [buffer |-> [b1 EXCEPT ![pos] = label],
              queue |-> Append(f.queue, pos),
              queueStart |-> f.queueStart,
              maxx |-> IF dir = 1 THEN Max2(f.maxx, pos % width) ELSE f.maxx,
              minx |-> IF dir = 2 THEN Min2(f.minx, pos % width) ELSE f.minx,
              miny |-> IF dir = 3 THEN Min2(f.miny, pos \div width) ELSE f.miny,
              maxy |-> IF dir = 4 THEN Max2(f.maxy, pos \div width) ELSE f.maxy]
        ELSE [f EXCEPT !.buffer = b1]

\* one neighbour of the pixel pulled from the queue;
\* dir: 1 = pos + 1, 2 = pos - 1, 3 = pos - width, 4 = pos + width
Visit(f, pos, dir, type, label, image, threshold, width) ==
    LET b1 == IF f.buffer[pos] = 0
              THEN [f.buffer EXCEPT ![pos] = Classify(image, pos, threshold)]
              ELSE f.buffer
    IN  IF b1[pos] = type
        THEN [buffer |-> [b1 EXCEPT ![pos] = label],
              queue |-> Append(f.queue, pos),
              queueStart |-> f.queueStart,
              maxx |-> IF dir = 1 THEN Max2(f.maxx, pos % width) ELSE f.maxx,
              minx |-> IF dir = 2 THEN Min2(f.minx, pos % width) ELSE f.minx,
              miny |-> IF dir = 3 THEN Min2(f.miny, pos \div width) ELSE f.miny,
              maxy |-> IF dir = 4 THEN Max2(f.maxy, pos \div width) ELSE f.maxy]
        ELSE [f EXCEPT !.buffer = b1]

\* one pass of while (queueEnd > queueStart): pull a pixel from the queue
\* and search its four neighbours
FillStep(f, type, label, image, threshold, width) ==
    LET position == f.queue[f.queueStart + 1]
        f0 == [f EXCEPT !.queueStart = @ + 1]
        f1 == Visit(f0, position + 1, 1, type, label, image, threshold, width)
        f2 == Visit(f1, position - 1, 2, type, label, image, threshold, width)
        f3 == Visit(f2, position - width, 3, type, label, image, threshold, width)
    IN  Visit(f3, position + width, 4, type, label, image, threshold, width)

\* at most k passes of the loop
RECURSIVE FillRun(_, _, _, _, _, _, _)
FillRun(f, k, type, label, image, threshold, width) ==
    IF k = 0 \/ Len(f.queue) <= f.queueStart THEN f
    ELSE FillRun(FillStep(f, type, label, image, threshold, width),
                 k - 1, type, label, image, threshold, width)

\* the loop, run to its end in runs of width passes
RECURSIVE Fill(_, _, _, _, _, _)
Fill(f, type, label, image, threshold, width) ==
    IF Len(f.queue) > f.queueStart
    THEN Fill(FillRun(f, width, type, label, image, threshold, width),
              type, label, image, threshold, width)
    ELSE f

\* sum of the channel sums of the pixels queue[from .. to - 1] (0-based)
RECURSIVE SumPix(_, _, _, _)
SumPix(queue, image, from, to) ==
    IF from >= to THEN 0
    ELSE IF to = from + 1 THEN Pix(image, queue[from + 1])
    ELSE LET mid == (from + to) \div 2
         IN  SumPix(queue, image, from, mid) + SumPix(queue, image, mid, to)

\* IsRound without the lower side of the band
IsRoundBelow(roundnessMilli) ==
    roundnessMilli - circularToleranceMilli < 1000

\* the roundness test: roundness within circularTolerance of 1.0
IsRound(roundnessMilli) ==
    /\ roundnessMilli - circularToleranceMilli < 1000
    /\ roundnessMilli + circularToleranceMilli > 1000

\* LargeEnough that lets every segment in
LargeEnoughAny(size) == size > 0

\* a segment counts as large enough
LargeEnough(size) == size > minSize

\* once the queue is empty: the size of the segment that the fill f
\* gathered from seed ii and, if it is large enough, its other properties,
\* written to slot segmentArray[numSegments]; st.ret is the return value
\* and st.pushed counts the pixels that the fills of the call queued
Measure(st, f, image, ii, areaRatioMilli, width) ==
    LET slot == st.numSegments
        type == st.buffer[ii]
        queueOldStart == st.queueStart
        queueEnd == Len(f.queue)
        size == queueEnd - queueOldStart
        vx == f.maxx - f.minx + 1
        vy == f.maxy - f.miny + 1
        roundness == (vx * vy * areaRatioMilli) \div size
        isRound == LargeEnough(size) /\ IsRound(roundness)
        old == st.segmentArray[slot]
        seg == IF ~LargeEnough(size)
               THEN [old EXCEPT !.x = (ii % width) * 1000,
                                !.y = (ii \div width) * 1000,
                                !.valid = FALSE, !.round = FALSE,
                                !.size = size]
               ELSE [old EXCEPT !.x = ((f.maxx + f.minx) \div 2) * 1000,
                                !.y = ((f.maxy + f.miny) \div 2) * 1000,
                                !.valid = FALSE, !.round = isRound,
                                !.size = size,
                                !.maxx = f.maxx, !.maxy = f.maxy,
                                !.minx = f.minx, !.miny = f.miny,
                                !.type = -type,
                                !.roundness = roundness,
                                !.mean = IF isRound
                                         THEN SumPix(f.queue, image, queueOldStart, queueEnd)
                                                  \div size
                                         ELSE @]
    IN  [st EXCEPT !.buffer = f.buffer, !.queue = f.queue,
                   !.queueStart = f.queueStart, !.queueEnd = queueEnd,
                   !.queueOldStart = queueOldStart,
                   !.numSegments = slot + 1,
                   !.segmentArray = [@ EXCEPT ![slot] = seg],
                   !.ret = isRound,
                   !.pushed = @ + size]

\* examines the segment seeded at ii into slot segmentArray[numSegments];
\* the new st, with the call's return value in st.ret
examineSegment(st, image, ii, areaRatioMilli, width) ==
    Measure(st,
            Fill([buffer |-> [st.buffer EXCEPT ![ii] = st.numSegments + 1],
                  queue |-> Append(st.queue, ii),
                  queueStart |-> st.queueStart,
                  maxx |-> ii % width, minx |-> ii % width,
                  miny |-> ii \div width, maxy |-> ii \div width],
                 st.buffer[ii], st.numSegments + 1, image, st.threshold, width),
            image, ii, areaRatioMilli, width)

(***************************************************************************)
(* The pair test and the shape fit of findSegment, on the outer segment    *)
(* segmentArray[numSegments - 2] and the inner segmentArray[numSegments-1].*)
(***************************************************************************)
\* sums of coordinates and of their products over queue[from .. to - 1]
RECURSIVE Moments(_, _, _, _)
Moments(queue, from, to, width) ==
    IF from >= to
    THEN [sx |-> 0, sy |-> 0, sxx |-> 0, sxy |-> 0, syy |-> 0]
    ELSE IF to = from + 1
    THEN LET px == queue[from + 1] % width
             py == queue[from + 1] \div width
         IN  [sx |-> px, sy |-> py, sxx |-> px * px, sxy |-> px * py,
              syy |-> py * py]
    ELSE LET mid == (from + to) \div 2
             a == Moments(queue, from, mid, width)
             b == Moments(queue, mid, to, width)
         IN  [sx |-> a.sx + b.sx, sy |-> a.sy + b.sy, sxx |-> a.sxx + b.sxx,
              sxy |-> a.sxy + b.sxy, syy |-> a.syy + b.syy]

\* RatioOK that lets every pair of sizes pass
RatioAny(outer, inner) == TRUE

\* size(outer) / areasRatio / size(inner) within ratioTolerance of 1.0
RatioOK(outer, inner) ==
    LET ratioMilli == (1000 * outer.size * areasRatio.den)
                          \div (areasRatio.num * inner.size)
    IN  /\ ratioMilli - ratioToleranceMilli < 1000
        /\ ratioMilli + ratioToleranceMilli > 1000

\* the bounding-box centres lie within the absolute slack plus a ratio of
\* the outer extent, in x and in y
ConcentricOK(outer, inner) ==
    /\ Abs(inner.x - outer.x)
           <= centerDistanceToleranceAbs * 1000
                  + centerDistanceToleranceRatioMilli * (outer.maxx - outer.minx)
    /\ Abs(inner.y - outer.y)
           <= centerDistanceToleranceAbs * 1000
                  + centerDistanceToleranceRatioMilli * (outer.maxy - outer.miny)

\* CircularityOK of a test that leaves no tolerance
CircularityExact(circularityMilli) == circularityMilli = 1000

\* circularity - 1.0 within circularityTolerance
CircularityOK(circularityMilli) ==
    /\ circularityMilli - 1000 < circularityToleranceMilli
    /\ circularityMilli - 1000 > -circularityToleranceMilli

\* MeanThreshold from the outer region alone
MeanThresholdOuter(outer, inner) == outer.mean

\* threshold = (outer.mean + inner.mean) / 2
MeanThreshold(outer, inner) == (outer.mean + inner.mean) \div 2

\* the shared term t of the pixel leakage correction, in thousandths;
\* the quadratic is scaled by den^2 and solved in hundredths
LeakageT(m0o, m1o, outerSize, innerSize) ==
    LET n2 == Sq(diameterRatio.num)
        d2 == Sq(diameterRatio.den)
        sqrtRatio == ISqrt((1000000 * innerSize) \div (outerSize + innerSize))
        m0i == (sqrtRatio * m0o) \div 1000
        m1i == (sqrtRatio * m1o) \div 1000
        a == d2 - n2
        b == -(((m0i + m1i) * d2 + (m0o + m1o) * n2) \div 10)
        c == (((m0i * m1i) \div 100) * d2 - ((m0o * m1o) \div 100) * n2) \div 100
    IN  ((-b - ISqrt(b * b - 4 * a * c)) * 10) \div (2 * a)

\* the half axes sqrt(f0), sqrt(f1) of the covariance fm0, fm1, fm2
Axes(fm0, fm1, fm2) ==
    LET root == ISqrt(Sq(fm0 + fm2) - 4 * (fm0 * fm2 - fm1 * fm1))
    IN  [m0 |-> SqrtMilli(((fm0 + fm2) + root) \div 2),
         m1 |-> SqrtMilli(((fm0 + fm2) - root) \div 2)]

\* the circularity test and what it writes: the pair's slots with the
\* inner centroid (cx, cy), the union's centroid (sx, sy) and axes ax
Shape(st, cx, cy, sx, sy, ax) ==
    LET n == st.numSegments
        outer == st.segmentArray[n - 2]
        inner == st.segmentArray[n - 1]
        circularity == (((ax.m0 * ax.m1) \div 1000) * 4 * PiMilli)
                           \div (1000 * st.queueEnd)
        t == LeakageT(ax.m0, ax.m1, outer.size, inner.size)
    IN  IF CircularityOK(circularity)
        THEN [st EXCEPT
                 !.segmentArray =
                     [@ EXCEPT
                        ![n - 2] = [outer EXCEPT !.valid = TRUE,
                                                 !.x = sx, !.y = sy],
                        ![n - 1] = [inner EXCEPT
                                       !.valid = TRUE,
                                       !.m0 = ax.m0 + t, !.m1 = ax.m1 + t,
                                       !.maxx = outer.maxx, !.maxy = outer.maxy,
                                       !.minx = outer.minx, !.miny = outer.miny,
                                       !.x = sx, !.y = sy,
                                       !.size = outer.size + inner.size]],
                 !.threshold = MeanThreshold(outer, inner),
                 !.passed = TRUE, !.pairs = @ \cup {n - 1}]
        ELSE [st EXCEPT
                 !.segmentArray =
                     [@ EXCEPT
                        ![n - 2] = [outer EXCEPT !.x = cx, !.y = cy],
                        ![n - 1] = [inner EXCEPT !.m0 = ax.m0, !.m1 = ax.m1]],
                 !.passed = TRUE, !.pairs = @ \cup {n - 1}]

\* Fit that takes the centroid of the inner segment for that of the pair
FitInner(st, mi, mo) ==
    LET queueEnd == st.queueEnd
        ni == queueEnd - st.queueOldStart
        Sx == mi.sx + mo.sx
        Sy == mi.sy + mo.sy
    IN  Shape(st, (1000 * mi.sx) \div ni, (1000 * mi.sy) \div ni,
              (1000 * mi.sx) \div ni, (1000 * mi.sy) \div ni,
              Axes((1000 * (queueEnd * (mi.sxx + mo.sxx) - Sx * Sx))
                       \div Sq(queueEnd),
                   (1000 * (queueEnd * (mi.sxy + mo.sxy) - Sx * Sy))
                       \div Sq(queueEnd),
                   (1000 * (queueEnd * (mi.syy + mo.syy) - Sy * Sy))
                       \div Sq(queueEnd)))

\* the centroids and the covariance from the sums mi over the inner
\* segment's pixels and mo over the outer segment's
Fit(st, mi, mo) ==
    LET queueEnd == st.queueEnd
        ni == queueEnd - st.queueOldStart
        Sx == mi.sx + mo.sx
        Sy == mi.sy + mo.sy
    IN  Shape(st, (1000 * mi.sx) \div ni, (1000 * mi.sy) \div ni,
              (1000 * Sx) \div queueEnd, (1000 * Sy) \div queueEnd,
              Axes((1000 * (queueEnd * (mi.sxx + mo.sxx) - Sx * Sx))
                       \div Sq(queueEnd),
                   (1000 * (queueEnd * (mi.sxy + mo.sxy) - Sx * Sy))
                       \div Sq(queueEnd),
                   (1000 * (queueEnd * (mi.syy + mo.syy) - Sy * Sy))
                       \div Sq(queueEnd)))

\* the body of the pair test; st.passed tells whether the ratio and the
\* concentricity tests passed (the tracking scan then stops) and st.pairs
\* holds the inner slots of the pairs of the call that passed them
MatchPair(st, width) ==
    IF /\ RatioOK(st.segmentArray[st.numSegments - 2],
                  st.segmentArray[st.numSegments - 1])
       /\ ConcentricOK(st.segmentArray[st.numSegments - 2],
                       st.segmentArray[st.numSegments - 1])
    THEN Fit(st, Moments(st.queue, st.queueOldStart, st.queueEnd, width),
             Moments(st.queue, 0, st.queueOldStart, width))
    ELSE [st EXCEPT !.passed = FALSE]

(***************************************************************************)
(* changeThreshold and bufferCleanup.                                      *)
(***************************************************************************)
\* while (dum > 1) { dum = dum / 2; div *= 2; }
RECURSIVE Div(_, _)
Div(dum, div) == IF dum > 1 THEN Div(dum \div 2, div * 2) ELSE div

\* StepAlive with the floor at an eighth of its value
StepAliveCoarse(step) == step > 2

\* StepAlive with the floor at half its value
StepAliveFiner(step) == step > 8

\* the step below which the schedule signals exhaustion
StepAlive(step) == step > 16

\* changeThreshold without the half step that centres the probe
changeThresholdUncentred(numFailed) ==
    LET div == Div(numFailed, 1)
        step == 256 \div div
    IN  [threshold |-> 3 * (step * (numFailed - div)),
         ret |-> StepAlive(step)]

\* changeThreshold with the level taken one count late
changeThresholdLate(numFailed) ==
    LET div == Div(numFailed - 1, 1)
        step == 256 \div div
    IN  [threshold |-> 3 * (step * (numFailed - div) + step \div 2),
         ret |-> StepAlive(step)]

\* the threshold that changeThreshold assigns for the failure count
\* numFailed, and its return value
changeThreshold(numFailed) ==
    LET div == Div(numFailed, 1)
        step == 256 \div div
    IN  [threshold |-> 3 * (step * (numFailed - div) + step \div 2),
         ret |-> StepAlive(step)]

\* the freshly initialised label buffer of a width x height frame
FullClear(width, height) ==
    [p \in 0 .. (width * height - 1) |->
        IF \/ p \div width = 0 \/ p \div width = height - 1
           \/ p % width = 0 \/ p % width = width - 1
        THEN BORDER ELSE 0]

\* LocalCells of a cleanup that does not clamp its right edge
LocalCellsWide(init, width, height) ==
    LET ix == Max2(init.minx - 2, 1)
        ax == init.maxx + 2
        iy == Max2(init.miny - 2, 1)
        ay == Min2(init.maxy + 2, height - 2)
    IN  {y * width + x : x \in ix .. (ax - 1), y \in iy .. (ay - 1)}

\* the cells that the local cleanup zeroes
LocalCells(init, width, height) ==
    LET ix == Max2(init.minx - 2, 1)
        ax == Min2(init.maxx + 2, width - 2)
        iy == Max2(init.miny - 2, 1)
        ay == Min2(init.maxy + 2, height - 2)
    IN  {y * width + x : x \in ix .. (ax - 1), y \in iy .. (ay - 1)}

\* FullCleanup of a cleanup that never takes the local branch
FullCleanupAlways(init, track, lastTrackOK) == TRUE

\* FullCleanup that tests the tracking flag alone
FullCleanupUntracked(init, track, lastTrackOK) == track = FALSE

\* FullCleanup that does not test the tracking flag
FullCleanupTracked(init, track, lastTrackOK) ==
    init.valid = FALSE \/ lastTrackOK = FALSE

\* whether bufferCleanup takes the full clear
FullCleanup(init, track, lastTrackOK) ==
    init.valid = FALSE \/ track = FALSE \/ lastTrackOK = FALSE

\* bufferCleanup that returns without touching the buffer
bufferCleanupSkipped(buffer, init, track, lastTrackOK, width, height) == buffer

bufferCleanup(buffer, init, track, lastTrackOK, width, height) ==
    IF FullCleanup(init, track, lastTrackOK)
    THEN LET clear == FullClear(width, height)
         IN  [p \in DOMAIN buffer |->
                 IF p < width * height THEN clear[p] ELSE buffer[p]]
    ELSE LET cells == LocalCells(init, width, height)
         IN  [p \in DOMAIN buffer |-> IF p \in cells THEN 0 ELSE buffer[p]]

(***************************************************************************)
(* findSegment.  c is the configuration of the instance: width, height,    *)
(* track, maxFailed, draw, debug.                                          *)
(***************************************************************************)
\* ScanDark that takes the light pixels for seeds
ScanLight(image, ii, threshold) == Pix(image, ii) > threshold

\* the scan's own test of an unclassified pixel
ScanDark(image, ii, threshold) == Pix(image, ii) < threshold

\* BelowCap that lets one more segment in
BelowCapLoose(numSegments) == numSegments <= MAX_SEGMENTS

\* whether another segment may be examined
BelowCap(numSegments) == numSegments < MAX_SEGMENTS

\* AfterPair that sends a tracking scan back to its start
AfterPairRestart(track, ii, start) == IF track THEN start ELSE ii

\* where the scan goes on after a pair passed the ratio and concentricity
\* tests: if (track) ii = start - 1
AfterPair(track, ii, start) == IF track THEN start - 1 ELSE ii

\* after the inside area was examined
ScanDisc(st4, width) == IF st4.ret THEN MatchPair(st4, width) ELSE st4

\* after the segment at the seed was examined: if it looks like a ring,
\* its inside area is examined
ScanRing(st2, image, width) ==
    LET o == st2.segmentArray[st2.numSegments - 1]
        pos == (o.y \div 1000) * width + (o.x \div 1000)
        st3 == [st2 EXCEPT !.buffer =
                   IF @[pos] = 0
                   THEN [@ EXCEPT ![pos] = Classify(image, pos, st2.threshold)]
                   ELSE @]
    IN  IF st2.ret
        THEN IF st3.buffer[pos] = -1 /\ BelowCap(st3.numSegments)
             THEN ScanDisc(examineSegment(st3, image, pos,
                                          innerAreaRatioMilli, width), width)
             ELSE st3
        ELSE st2

\* ScanStep that keeps the queue of the segments examined before
ScanStepKeep(st, image, ii, width) ==
    LET st1 == [st EXCEPT !.buffer =
                   IF @[ii] = 0 /\ ScanDark(image, ii, st.threshold)
                   THEN [@ EXCEPT ![ii] = -2] ELSE @,
                          !.passed = FALSE]
    IN  IF st1.buffer[ii] = -2 /\ BelowCap(st.numSegments)
        THEN ScanRing(examineSegment(st1, image, ii, outerAreaRatioMilli,
                                     width),
                      image, width)
        ELSE st1

\* one pass of the while loop's body, up to the increment of ii
ScanStep(st, image, ii, width) ==
    LET st1 == [st EXCEPT !.buffer =
                   IF @[ii] = 0 /\ ScanDark(image, ii, st.threshold)
                   THEN [@ EXCEPT ![ii] = -2] ELSE @,
                          !.passed = FALSE]
    IN  IF st1.buffer[ii] = -2 /\ BelowCap(st.numSegments)
        THEN ScanRing(examineSegment(
                          [st1 EXCEPT !.queue = <<>>, !.queueEnd = 0,
                                      !.queueStart = 0],
                          image, ii, outerAreaRatioMilli, width),
                      image, width)
        ELSE st1

\* one pass of the while loop: r.st the working state, r.ii the index,
\* r.cont the loop's flag; st.order lists the indices the passes of the
\* call tested, in their order
ScanPass(r, image, start, c) ==
    LET s1 == ScanStep([r.st EXCEPT !.order = Append(@, r.ii)],
                       image, r.ii, c.width)
        i1 == IF s1.passed THEN AfterPair(c.track, r.ii, start) ELSE r.ii
        i2 == IF i1 + 1 >= c.width * c.height THEN 0 ELSE i1 + 1
    IN  [st |-> s1, ii |-> i2, cont |-> (i2 # start)]

\* at most k passes of the loop
RECURSIVE ScanRun(_, _, _, _, _)
ScanRun(r, k, image, start, c) ==
    IF k = 0 \/ ~r.cont THEN r
    ELSE ScanRun(ScanPass(r, image, start, c), k - 1, image, start, c)

\* while (cont), in runs of width passes
RECURSIVE ScanLoop(_, _, _, _)
ScanLoop(r, image, start, c) ==
    IF r.cont THEN ScanLoop(ScanRun(r, c.width, image, start, c), image, start, c)
    ELSE r

Scan(st, image, ii, start, c) ==
    ScanLoop([st |-> st, ii |-> ii, cont |-> TRUE], image, start, c).st

\* ScanStart that ignores the previous detection
ScanStartOrigin(init, c) == 0

\* the index the scan starts at
ScanStart(init, c) ==
    IF init.valid /\ c.track
    THEN (init.y \div 1000) * c.width + (init.x \div 1000)
    ELSE 0

\* the local result as findSegment initialises it
EmptyResult ==
    [NoSegment EXCEPT !.x = 0, !.y = 0, !.round = FALSE, !.valid = FALSE]

\* Reported without the test of the valid flag
ReportedLarge(seg) == seg.size > minSize

\* whether slot i is copied into the result
Reported(seg) == seg.size > minSize /\ seg.valid

\* the last reported slot among segmentArray[0 .. numSegments - 1]
ResultOf(segmentArray, numSegments) ==
    LET hits == {i \in 0 .. (numSegments - 1) : Reported(segmentArray[i])}
    IN  IF hits = {} THEN EmptyResult
        ELSE segmentArray[CHOOSE i \in hits : \A j \in hits : j <= i]

TrackOK(segmentArray, numSegments) ==
    numSegments = 2 /\ segmentArray[0].valid /\ segmentArray[1].valid

\* LostCount that leaves numFailed as counted past the schedule's floor
LostCountKept(numFailed, alive) == numFailed

\* numFailed after the schedule ran in the last branch:
\* if (changeThreshold() == false) numFailed = 0
LostCount(numFailed, alive) == IF alive = FALSE THEN 0 ELSE numFailed

\* the threshold retried on the frames between two runs of the schedule
Retry(lastThreshold) == lastThreshold

\* Controller that sweeps beyond maxFailed as it does below: the schedule
\* on every other failed frame, the last good threshold in between
ControllerAlternating(valid, d, c) ==
    IF valid
    THEN [threshold |-> d.threshold, lastThreshold |-> d.threshold,
          numFailed |-> 0, drawAll |-> FALSE, probed |-> FALSE]
    ELSE [threshold |-> IF d.numFailed % 2 = 0
                        THEN changeThreshold(d.numFailed + 1).threshold
                        ELSE Retry(d.lastThreshold),
          lastThreshold |-> d.lastThreshold,
          numFailed |-> IF d.numFailed < c.maxFailed \/ d.numFailed % 2 = 1
                        THEN d.numFailed + 1
                        ELSE LostCount(d.numFailed + 1,
                                       changeThreshold(d.numFailed + 1).ret),
          drawAll |-> IF c.debug THEN TRUE ELSE d.drawAll,
          probed |-> (d.numFailed % 2 = 0)]

\* Controller that, with debug on, holds the threshold where it is
ControllerHeld(valid, d, c) ==
    IF valid \/ c.debug
    THEN [threshold |-> d.threshold, lastThreshold |-> d.threshold,
          numFailed |-> 0, drawAll |-> c.debug, probed |-> FALSE]
    ELSE [threshold |-> changeThreshold(d.numFailed + 1).threshold,
          lastThreshold |-> d.lastThreshold,
          numFailed |-> d.numFailed + 1,
          drawAll |-> d.drawAll, probed |-> TRUE]

\* the controller: threshold, lastThreshold, numFailed and drawAll after a
\* frame, from the validity of its result; probed tells whether
\* changeThreshold ran
Controller(valid, d, c) ==
    IF valid
    THEN [threshold |-> d.threshold, lastThreshold |-> d.threshold,
          numFailed |-> 0, drawAll |-> FALSE, probed |-> FALSE]
    ELSE IF d.numFailed < c.maxFailed
    THEN [threshold |-> IF d.numFailed % 2 = 0
                        THEN changeThreshold(d.numFailed + 1).threshold
                        ELSE Retry(d.lastThreshold),
          lastThreshold |-> d.lastThreshold,
          numFailed |-> d.numFailed + 1,
          drawAll |-> IF c.debug THEN TRUE ELSE d.drawAll,
          probed |-> (d.numFailed % 2 = 0)]
    ELSE [threshold |-> changeThreshold(d.numFailed + 1).threshold,
          lastThreshold |-> d.lastThreshold,
          numFailed |-> LostCount(d.numFailed + 1,
                                  changeThreshold(d.numFailed + 1).ret),
          drawAll |-> IF c.debug THEN TRUE ELSE d.drawAll,
          probed |-> TRUE]

\* the pixels of queue[queueOldStart .. queueEnd - 1] are set to 0
Blacken(image, queue, queueOldStart, queueEnd) ==
    LET cells == {queue[p + 1] : p \in queueOldStart .. (queueEnd - 1)}
    IN  [p \in DOMAIN image |-> IF p \in cells THEN <<0, 0, 0>> ELSE image[p]]

\* the drawing of the labelled pixels into the frame
Draw(image, buffer, segmentArray, drawAll, c) ==
    IF c.draw
    THEN [i \in DOMAIN image |->
             LET j == buffer[i]
             IN  IF j > 0 /\ (drawAll \/ segmentArray[j - 1].valid)
                 THEN [k \in 1 .. 3 |->
                          IF k - 1 = j % 3 THEN 0
                          ELSE IF k - 1 = (j + 1) % 3 \/ k - 1 = (j + 2) % 3
                               THEN 255 ELSE image[i][k]]
                 ELSE image[i]]
    ELSE image

\* the call after its scan left s: the result, lastTrackOK, the
\* controller, the frame's pixels and the cleanup for the next frame
Conclude(s, image, c) ==
    LET result == ResultOf(s.segmentArray, s.numSegments)
        trackOK == TrackOK(s.segmentArray, s.numSegments)
        ctl == Controller(result.valid, s, c)
    IN  [d |-> [s EXCEPT !.lastTrackOK = trackOK,
                         !.threshold = ctl.threshold,
                         !.lastThreshold = ctl.lastThreshold,
                         !.numFailed = ctl.numFailed,
                         !.drawAll = ctl.drawAll,
                         !.buffer = bufferCleanup(s.buffer, result, c.track,
                                                  trackOK, c.width, c.height),
                         !.ret = FALSE, !.passed = FALSE,
                         !.order = <<>>, !.pairs = {}, !.pushed = 0],
         image |-> Draw(Blacken(image, s.queue, s.queueOldStart, s.queueEnd),
                        s.buffer, s.segmentArray, ctl.drawAll, c),
         result |-> result,
         labels |-> s.buffer,
         probed |-> ctl.probed,
         order |-> s.order,
         pushed |-> s.pushed,
         pairs |-> s.pairs]

\* one call: d is the instance's fields with the (static) buffer and queue;
\* yields the fields after the call, the frame as the call leaves it, the
\* returned segment, the label buffer as it was before the final cleanup,
\* whether changeThreshold ran, the indices the scan tested, the number of
\* pixels the fills queued and the inner slots of the pairs that passed the ratio and concentricity tests
findSegment(d, image, init, c) ==
    Conclude(Scan([d EXCEPT !.numSegments = 0, !.ret = FALSE,
                            !.passed = FALSE, !.order = <<>>, !.pairs = {},
                            !.pushed = 0],
                  image, ScanStart(init, c), ScanStart(init, c), c),
             image, c)

(***************************************************************************)
(* The frames the caller feeds: gray pixels of two levels, dark shapes on  *)
(* a light ground, placed by the coordinates of their top-left corner.     *)
(***************************************************************************)
\* a 6 x 6 square ring, one pixel thick: the ring of a marker of diameter
\* ratio 4/6, around a 4 x 4 disc
Ring(x0, y0) ==
    {<<x, y>> \in (x0 .. x0 + 5) \X (y0 .. y0 + 5) :
        x = x0 \/ x = x0 + 5 \/ y = y0 \/ y = y0 + 5}
\* two dark pixels inside the disc of Ring(x0, y0), off its centre
Specks(x0, y0) == {<<x0 + 3, y0 + 2>>, <<x0 + 3, y0 + 3>>}
\* eight dark pixels apart from each other, on two rows
Crowd(x0, y0) == {x0, x0 + 2, x0 + 4, x0 + 6} \X {y0, y0 + 2}
\* a cross of five dark pixels, which fills its 3 x 3 box as a ring would
Cross(x0, y0) ==
    {<<x0 + 1, y0>>, <<x0, y0 + 1>>, <<x0 + 1, y0 + 1>>, <<x0 + 2, y0 + 1>>,
     <<x0 + 1, y0 + 2>>}
\* dark pixels in the disc of Ring(x0, y0): two that thicken the ring and
\* three apart from it, which leave the disc round and its centre light
Clutter(x0, y0) ==
    {<<x0 + 1, y0 + 1>>, <<x0 + 1, y0 + 4>>, <<x0 + 3, y0 + 2>>,
     <<x0 + 2, y0 + 3>>, <<x0 + 3, y0 + 3>>}
\* a 6 x 2 bar
Bar(x0, y0) == (x0 .. x0 + 5) \X (y0 .. y0 + 1)
\* a hook of eleven dark pixels along the left and the lower side of a
\* 6 x 6 box
Hook(x0, y0) ==
    ({x0} \X (y0 .. y0 + 5)) \cup ((x0 .. x0 + 5) \X {y0 + 5})

Gray(level) == <<level, level, level>>
Frame(darkCells, dark, light, width, height) ==
    [p \in 0 .. (width * height - 1) |->
        IF <<p % width, p \div width>> \in darkCells
        THEN Gray(dark) ELSE Gray(light)]

FrameNames ==
    {"uniform", "marker", "edge", "dim", "specks", "bar+marker",
     "specks+marker"}
\* the frame of that name for a width x height camera
FrameFor(name, width, height) ==
    CASE name = "uniform" -> Frame({}, 20, 200, width, height)
      [] name = "marker" -> Frame(Ring(1, 1), 20, 200, width, height)
      [] name = "edge" -> Frame(Ring(width - 7, 8), 20, 200, width, height)
      [] name = "dim" -> Frame(Ring(1, 1), 20, 100, width, height)
      [] name = "specks" ->
             Frame(Ring(1, 1) \cup Specks(1, 1), 20, 200, width, height)
      [] name = "bar+marker" ->
             Frame(Bar(1, 1) \cup Ring(1, 8), 20, 200, width, height)
      [] name = "specks+marker" ->
             Frame(Ring(1, 1) \cup Specks(1, 1) \cup Ring(1, 8), 20, 200,
                   width, height)
      [] name = "crowd+marker" ->
             Frame(Crowd(1, 1) \cup Ring(1, 8), 20, 200, width, height)
      [] name = "cross+marker" ->
             Frame(Cross(1, 1) \cup Ring(1, 8), 20, 200, width, height)
      [] name = "inverse" -> Frame(Ring(1, 1), 200, 20, width, height)
      [] name = "thick" ->
             Frame(Ring(1, 1) \cup Clutter(1, 1), 20, 200, width, height)
      [] name = "notched" ->
             Frame(Ring(1, 1) \cup {<<2, 2>>}, 20, 200, width, height)
      [] name = "level" -> Frame(Ring(1, 1), 128, 200, width, height)
      [] name = "marker+crowd" ->
             Frame(Ring(1, 1) \cup Crowd(1, 8), 20, 200, width, height)
      [] name = "hook+marker" ->
             Frame(Hook(1, 1) \cup Ring(1, 8), 20, 200, width, height)
FrameOf(name) == FrameFor(name, W, H)

(***************************************************************************)
(* State.  The detector's fields are those of the first instance; a second *)
(* instance, where there is one, keeps its own fields in other and shares  *)
(* the static buffer and queue.                                            *)
(***************************************************************************)
VARIABLES
    buffer,         \* static int* buffer: one label per pixel
    queue,          \* static int* queue, cells [0, queueEnd)
    queueStart, queueEnd, queueOldStart,
    numSegments,
    segmentArray,   \* slots 0 .. MAX_SEGMENTS - 1, and the slot past them
    threshold, lastThreshold, numFailed,
    lastTrackOK, drawAll,
    track, maxFailed, draw, debug,   \* configuration
    image,          \* the caller's frame buffer
    result,         \* the segment the last call returned
    call,           \* the last call: what it was given (stale: the cells
                    \* that held a label already), what it labelled
    calls,          \* the number of calls made, up to MaxCalls
    run,            \* the calls since numFailed was last 0 on return
    probes,         \* the runs of changeThreshold in this run of failures
    held,           \* the values threshold has held between calls so far
    other,          \* the second instance: its fields, frame and result
    alone,          \* each instance as it fares with buffers of its own
    heap,           \* the allocation of the static buffer and queue, and
                    \* the instances that live; <<>> where not followed
    srv,            \* the image server, its threads and the controller
                    \* that feeds it; <<>> where not followed
    zb              \* a message on its way through the ZigBee packing;
                    \* <<>> where not followed

vars == <<buffer, queue, queueStart, queueEnd, queueOldStart, numSegments,
          segmentArray, threshold, lastThreshold, numFailed, lastTrackOK,
          drawAll, track, maxFailed, draw, debug, image, result, call, calls,
          run, probes, held, other, alone, heap, srv, zb>>

Config == [width |-> W, height |-> H, track |-> track,
           maxFailed |-> maxFailed, draw |-> draw, debug |-> debug]

Detector ==
    [buffer |-> buffer, queue |-> queue, queueStart |-> queueStart,
     queueEnd |-> queueEnd, queueOldStart |-> queueOldStart,
     numSegments |-> numSegments, segmentArray |-> segmentArray,
     threshold |-> threshold, lastThreshold |-> lastThreshold,
     numFailed |-> numFailed, lastTrackOK |-> lastTrackOK,
     drawAll |-> drawAll, ret |-> FALSE, passed |-> FALSE,
     order |-> <<>>, pairs |-> {}, pushed |-> 0]

(***************************************************************************)
(* Construction and the calls.                                             *)
(***************************************************************************)
\* the number of calls followed from construction, where the calls are
\* counted
MaxCalls == 3

\* values an uninitialised int member may hold
Uninitialised == {-1, 1000}

\* what the queue indices, which the constructor leaves unset, and the
\* queue cells, which it does not fill, may hold: the cells [0, queueEnd)
UnsetQueues == {<<>>, <<W + 1, W + 2>>}

\* what is known of the call before the first one: nothing
NoCall ==
    [frame |-> FrameOf("uniform"), init |-> EmptyResult, threshold |-> 0,
     numFailed |-> 0, held |-> {}, start |-> FullClear(W, H),
     labels |-> FullClear(W, H), stale |-> {},
     again |-> FALSE, probed |-> FALSE, order |-> <<>>, pairs |-> {},
     pushed |-> 0,
     before |-> <<>>]

\* the state the constructor leaves (the first instance allocates and
\* clears the static buffers; track = true, draw = debug = false and
\* maxFailed = 0 unless the owner configures them otherwise); numSegments,
\* the queue indices, lastThreshold and segmentArray are not initialised
Construct(tracks, maxFaileds, draws, debugs) ==
    /\ buffer = FullClear(W, H)
    /\ queue \in UnsetQueues
    /\ queueStart = 0
    /\ queueEnd = Len(queue)
    /\ queueOldStart = 0
    /\ numSegments = 0
    /\ segmentArray = [i \in Slots |-> NoSegment]
    /\ threshold = maxThreshold \div 2
    /\ lastThreshold \in Uninitialised
    /\ numFailed = 0
    /\ lastTrackOK = FALSE
    /\ drawAll = FALSE
    /\ track \in tracks
    /\ maxFailed \in maxFaileds
    /\ draw \in draws
    /\ debug \in debugs
    /\ image = FrameOf("uniform")
    /\ result = EmptyResult
    /\ call = NoCall
    /\ calls = 0
    /\ run = 0
    /\ probes = 0
    /\ held = {threshold}

\* the fields of the first instance after a call that yielded r
Returned(r, frame, again, history) ==
    /\ buffer' = r.d.buffer
    /\ queue' = r.d.queue
    /\ queueStart' = r.d.queueStart
    /\ queueEnd' = r.d.queueEnd
    /\ queueOldStart' = r.d.queueOldStart
    /\ numSegments' = r.d.numSegments
    /\ segmentArray' = r.d.segmentArray
    /\ threshold' = r.d.threshold
    /\ lastThreshold' = r.d.lastThreshold
    /\ numFailed' = r.d.numFailed
    /\ lastTrackOK' = r.d.lastTrackOK
    /\ drawAll' = r.d.drawAll
    /\ image' = r.image
    /\ result' = r.result
    /\ call' = [frame |-> frame, init |-> result, threshold |-> threshold,
                numFailed |-> numFailed, held |-> held, start |-> buffer,
                labels |-> r.labels,
                stale |-> {p \in DOMAIN buffer : buffer[p] > 0},
                again |-> again, probed |-> r.probed,
                order |-> r.order, pairs |-> r.pairs, pushed |-> r.pushed,
                before |-> IF history /\ calls > 0
                           THEN <<[frame |-> call.frame,
                                   threshold |-> call.threshold,
                                   result |-> result]>>
                           ELSE <<>>]
    /\ calls' = IF calls < MaxCalls THEN calls + 1 ELSE calls
    /\ run' = IF r.d.numFailed = 0 THEN 0 ELSE run + 1
    /\ probes' = IF r.result.valid THEN 0
                 ELSE (IF numFailed = 0 THEN 0 ELSE probes)
                          + (IF r.probed THEN 1 ELSE 0)
    /\ held' = held \cup {r.d.threshold}
    /\ UNCHANGED <<track, maxFailed, draw, debug>>

\* result = findSegment(image, result) on the given frame buffer; history
\* tells whether the call before this one is remembered in call.before
Call(frame, again, history) ==
    \E r \in {findSegment(Detector, frame, result, Config)} :
        /\ Returned(r, frame, again, history)
        /\ UNCHANGED <<other, alone, heap, srv, zb>>

\* the configurations and frames of the specifications
MaxFailedValues == {0, 2, 17}
SweepFrames == {"uniform", "marker"}

Init ==
    /\ Construct(BOOLEAN, {0}, {FALSE}, {FALSE})
    /\ other = <<>>
    /\ alone = <<>>
    /\ heap = <<>> /\ srv = <<>> /\ zb = <<>>

\* the caller acquires a new frame and runs the detector on it
Detect(name) == calls < MaxCalls /\ Call(FrameOf(name), FALSE, TRUE)

\* the caller runs the detector again on the frame buffer it holds
DetectAgain == calls > 0 /\ calls < MaxCalls /\ Call(image, TRUE, TRUE)

Next ==
    \/ \E name \in FrameNames : Detect(name)
    \/ DetectAgain

\* the detector on every frame of a short sequence
Spec == Init /\ [][Next]_vars

SweepInit ==
    /\ Construct(BOOLEAN, MaxFailedValues, {FALSE}, {FALSE})
    /\ other = <<>>
    /\ alone = <<>>
    /\ heap = <<>> /\ srv = <<>> /\ zb = <<>>

\* frames with more dark segments than segmentArray has slots, with a
\* small segment of a ring's roundness, with a large segment that is
\* sparser than a ring, or with a marker of light ring and dark disc on a
\* dark ground
CapFrames ==
    {"uniform", "marker", "crowd+marker", "marker+crowd", "cross+marker",
     "inverse", "hook+marker"}

CapNext == \E name \in CapFrames : Detect(name)

\* the detector on short sequences of such frames
CapSpec == Init /\ [][CapNext]_vars

\* frames of one marker, clean, at the edge, with dark pixels in its disc
\* or with a ring whose channel sum is the constructor's threshold
PairFrames == {"marker", "edge", "specks", "thick", "notched", "level"}

PairNext == \E name \in PairFrames : Detect(name)

\* the detector on short sequences of frames with a candidate pair
PairSpec == Init /\ [][PairNext]_vars

\* one more frame of an endless stream
Frame1(name) == Call(FrameOf(name), FALSE, FALSE)

SweepNext == \E name \in SweepFrames : Frame1(name)

\* the detector on an endless stream of frames, for the threshold sweep
SweepSpec == SweepInit /\ [][SweepNext]_vars
(***************************************************************************)
(* Properties of the result and of the state a call leaves.                *)
(***************************************************************************)
\* the slots examined by the last call
Examined == 0 .. (numSegments - 1)

\* C1: when no pair examined by a call passed all checks, the call returns
\* the result as it initialised it: valid = false, center (0, 0), and no
\* field taken from a segment slot, be it a candidate the call rejected or
\* a segment an earlier frame left in segmentArray
C1_NoMatchNoResult ==
    (calls > 0 /\ \A i \in Examined : ~segmentArray[i].valid)
        => /\ result.valid = FALSE
           /\ result.x = 0 /\ result.y = 0
           /\ result = EmptyResult

\* a call that rejected a pair of round segments while a later slot still
\* holds a valid segment of an earlier frame
C1_Witness ==
    /\ calls > 0 /\ numSegments >= 2
    /\ \A i \in Examined : ~segmentArray[i].valid
    /\ segmentArray[0].round /\ segmentArray[1].round
    /\ segmentArray[0].size > minSize /\ segmentArray[1].size > minSize
    /\ \E i \in numSegments .. (MAX_SEGMENTS - 1) :
           segmentArray[i].valid /\ segmentArray[i].size > minSize
    /\ result = EmptyResult
\* the slot the result was copied from
ResultSlot ==
    CHOOSE i \in Examined :
        /\ segmentArray[i].valid /\ segmentArray[i].size > minSize
        /\ \A j \in Examined :
               (segmentArray[j].valid /\ segmentArray[j].size > minSize) => j <= i

\* the pixels the last call gave the label
Region(label) ==
    {p \in DOMAIN call.labels : call.labels[p] = label /\ p \notin call.stale}

RECURSIVE SumOver(_)
SumOver(cells) ==
    IF cells = {} THEN 0
    ELSE LET p == CHOOSE q \in cells : TRUE
         IN  Pix(call.frame, p) + SumOver(cells \ {p})

\* the mean channel sum, in the frame as it was passed, of a region
RegionMean(label) == SumOver(Region(label)) \div Cardinality(Region(label))

\* C2: after a call that returns valid = true, numFailed is 0 and threshold,
\* which lastThreshold records too, is the integer mean of the mean channel
\* sum of the matched outer region and that of the matched inner region
C2_SuccessCalibrates ==
    (calls > 0 /\ result.valid)
        => /\ numFailed = 0
           /\ lastThreshold = threshold
           /\ threshold = (RegionMean(ResultSlot) + RegionMean(ResultSlot + 1)) \div 2

\* a success after a failed frame, which moves the threshold
C2_Witness ==
    /\ calls > 0 /\ result.valid
    /\ call.numFailed > 0
    /\ threshold # call.threshold

\* C3: a candidate rejected by a check does not end the scan: in a frame
\* whose first candidate in raster order is rejected and which holds a
\* marker further on, a call that starts at index 0 on a clean buffer with
\* a threshold between the dark level (3 * 20) and the light one (3 * 200)
\* finds that marker
C3_LaterMarkerFound ==
    (/\ calls > 0
     /\ call.frame \in {FrameOf("bar+marker"), FrameOf("specks+marker")}
     /\ ~call.init.valid
     /\ call.stale = {}
     /\ call.threshold > 3 * 20 /\ call.threshold < 3 * 200)
        => result.valid

\* the interior cells of the bounding box of seg expanded by the margin
ExpandedBox(seg) ==
    {p \in DOMAIN buffer :
        /\ p % W \in Max2(seg.minx - 2, 1) .. Min2(seg.maxx + 2, W - 2)
        /\ p \div W \in Max2(seg.miny - 2, 1) .. Min2(seg.maxy + 2, H - 2)}

\* the reset for the next frame touched only cells of the expanded
\* bounding box of the detection, and only to zero them
LocalResetOnly ==
    \A p \in DOMAIN buffer :
        IF p \in ExpandedBox(result)
        THEN buffer[p] \in {0, call.labels[p]}
        ELSE buffer[p] = call.labels[p]

\* C4 as stated: whenever a call with tracking enabled returns valid = true,
\* the reset of the label buffer for the next frame is the local one
C4_TrackedSuccessLocalReset ==
    (calls > 0 /\ track /\ result.valid) => LocalResetOnly

\* the cells from the expanded box's first column and row up to, but not
\* including, its last column and row
ResetCells(seg) ==
    {p \in DOMAIN buffer :
        /\ p % W >= Max2(seg.minx - 2, 1) /\ p % W < Min2(seg.maxx + 2, W - 2)
        /\ p \div W >= Max2(seg.miny - 2, 1)
        /\ p \div W < Min2(seg.maxy + 2, H - 2)}

\* C4 amended: whenever a call with tracking enabled returns valid = true
\* and examined exactly two segments, the reset is the local one: cells of
\* the expanded bounding box are zeroed (all but its last column and row)
\* and every other cell keeps what the call wrote
C4_FirstPairLocalReset ==
    (calls > 0 /\ track /\ result.valid /\ numSegments = 2)
        => /\ LocalResetOnly
           /\ \A p \in DOMAIN buffer :
                  buffer[p] = IF p \in ResetCells(result) THEN 0
                              ELSE call.labels[p]

\* a tracked success on the first pair after which the buffer is not the
\* one a full clear leaves
C4_Witness ==
    /\ calls > 0 /\ track /\ result.valid /\ numSegments = 2
    /\ buffer # FullClear(W, H)

\* C5: with draw disabled a call leaves every pixel sample of the frame as
\* it was, whatever the outcome
C5_FrameUntouched == (calls > 0 /\ ~draw) => image = call.frame

\* the last two calls were given the same frame, each time as the camera
\* delivered it
SameFrame ==
    /\ calls >= 2 /\ call.before # <<>>
    /\ ~call.again /\ call.frame = call.before[1].frame

\* C6 as stated: with tracking disabled, two consecutive calls on the same
\* frame return the same result
C6_SameFrameSameResult ==
    (~track /\ SameFrame) => result = call.before[1].result

\* C6 amended: with tracking disabled, two consecutive calls that are given
\* the same pixels and start with the same threshold return the same result
C6_SamePixelsSameThreshold ==
    (/\ ~track /\ calls >= 2 /\ call.before # <<>>
     /\ call.frame = call.before[1].frame
     /\ call.threshold = call.before[1].threshold)
        => result = call.before[1].result

\* two successes in a row on frames of the same pixels, the second of them
\* started with the threshold the first was started with
C6_Witness ==
    /\ ~track /\ calls >= 2 /\ call.before # <<>>
    /\ call.frame = call.before[1].frame
    /\ call.threshold = call.before[1].threshold
    /\ result.valid /\ call.before[1].result.valid
(***************************************************************************)
(* Properties of the threshold sweep.                                      *)
(***************************************************************************)
\* the schedule, run by the last call, signalled exhaustion
Exhausted == call.probed /\ ~changeThreshold(call.numFailed + 1).ret

\* C8 as stated: on a failed frame on which the schedule signals
\* exhaustion, numFailed is 0 when the call returns, in the Recovering
\* state as well as beyond it
C8_ExhaustionResets ==
    (calls > 0 /\ ~result.valid /\ Exhausted) => numFailed = 0

\* C8 amended: on a failed frame on which the schedule signals exhaustion
\* and which found the detector out of the Recovering state
\* (numFailed >= maxFailed), numFailed is 0 when the call returns
C8_ExhaustionResetsWhenLost ==
    (calls > 0 /\ ~result.valid /\ Exhausted /\ call.numFailed >= maxFailed)
        => numFailed = 0

\* the sweep of a detector with maxFailed > 0 reaches its floor and restarts
C8_Witness ==
    /\ calls > 0 /\ ~result.valid /\ Exhausted
    /\ maxFailed > 0 /\ call.numFailed >= maxFailed
    /\ numFailed = 0

\* C9: numFailed returns to 0 within max(maxFailed, 15) + 1 calls in a row,
\* every time: there are never more than max(maxFailed, 15) calls in a row
\* that return with numFailed other than 0
C9_SweepRestarts == run <= Max2(maxFailed, 15)

\* the longest run: a detector that never matched, with maxFailed above 15,
\* returns to 0 on the call after maxFailed failed ones
C9_Witness ==
    /\ calls > 0 /\ ~result.valid
    /\ maxFailed > 15 /\ call.numFailed = maxFailed
    /\ lastThreshold \in Uninitialised
    /\ numFailed = 0 /\ run = 0

\* the largest power of two not above k
Level(k) == CHOOSE l \in {2 ^ i : i \in 0 .. 10} : l <= k /\ k < 2 * l

\* the k-th point of the sweep that probes the midpoint of the channel-sum
\* range, then both quarter-points, then the four eighth-points, and so on
LevelPoint(k) == (maxThreshold * (2 * (k - Level(k)) + 1)) \div (2 * Level(k))

\* C10 as stated: over a run of failed frames that starts from failure
\* count 0, the k-th threshold the schedule assigns is the k-th point of
\* that sweep
C10_LevelByLevel ==
    (calls > 0 /\ ~result.valid /\ call.probed) => threshold = LevelPoint(probes)

\* C10 amended: with maxFailed = 0 the schedule runs on every failed frame
\* and the k-th threshold it assigns in a run of failed frames is the k-th
\* point of that sweep, down to the floor
C10_LevelByLevelWhenLost ==
    (calls > 0 /\ ~result.valid /\ maxFailed = 0)
        => /\ call.probed
           /\ probes = call.numFailed + 1
           /\ threshold = LevelPoint(probes)

\* the sweep of a detector with maxFailed = 0 arrives at its floor, the
\* first point of the sixteenth-level
C10_Witness ==
    /\ calls > 0 /\ ~result.valid /\ maxFailed = 0
    /\ probes = 16 /\ threshold = LevelPoint(16)
    /\ numFailed = 0
(***************************************************************************)
(* Two instances.  The first one constructed allocates the static buffer   *)
(* and queue for its own frame size; the second finds them allocated and   *)
(* uses them as they are.  alone follows each instance as it would fare    *)
(* with a buffer and a queue to itself.                                    *)
(***************************************************************************)
\* the second instance serves a camera of fewer rows, with tracking off
OtherHeight == H - 7
OtherConfig == [width |-> W, height |-> OtherHeight, track |-> FALSE,
                maxFailed |-> 0, draw |-> FALSE, debug |-> FALSE]

FirstFrames == {"marker", "bar+marker"}
SecondFrames == {"marker"}

\* the cells of the shared queue after a call wrote new from cell 0 on
Overlay(new, old) == new \o SubSeq(old, Len(new) + 1, Len(old))

SharedInit ==
    /\ Construct(BOOLEAN, {0}, {FALSE}, {FALSE})
    /\ \E unset \in Uninitialised :
           /\ other = [d |-> [Detector EXCEPT !.buffer = <<>>, !.queue = <<>>,
                                              !.queueEnd = 0,
                                              !.lastThreshold = unset],
                       result |-> EmptyResult]
           /\ alone = [a |-> [d |-> Detector, result |-> EmptyResult],
                       b |-> [d |-> [Detector EXCEPT
                                        !.buffer = FullClear(W, OtherHeight),
                                        !.queue = <<>>, !.queueEnd = 0,
                                        !.lastThreshold = unset],
                              result |-> EmptyResult]]
    /\ heap = <<>> /\ srv = <<>> /\ zb = <<>>

\* a call of the first instance, on the static buffer and queue
First(name) ==
    \E r \in {findSegment(Detector, FrameOf(name), result, Config)},
       s \in {findSegment(alone.a.d, FrameOf(name), alone.a.result, Config)} :
        /\ Returned([r EXCEPT !.d.queue = Overlay(@, queue)],
                    FrameOf(name), FALSE, FALSE)
        /\ alone' = [alone EXCEPT !.a = [d |-> s.d, result |-> s.result]]
        /\ UNCHANGED <<other, heap, srv, zb>>

\* a call of the second instance, on the same static buffer and queue
Second(name) ==
    \E r \in {findSegment([other.d EXCEPT !.buffer = buffer, !.queue = queue],
                          FrameFor(name, W, OtherHeight), other.result,
                          OtherConfig)},
       s \in {findSegment(alone.b.d, FrameFor(name, W, OtherHeight),
                          alone.b.result, OtherConfig)} :
        /\ buffer' = r.d.buffer
        /\ queue' = Overlay(r.d.queue, queue)
        /\ other' = [d |-> [r.d EXCEPT !.buffer = <<>>, !.queue = <<>>],
                     result |-> r.result]
        /\ alone' = [alone EXCEPT !.b = [d |-> s.d, result |-> s.result]]
        /\ UNCHANGED <<queueStart, queueEnd, queueOldStart, numSegments,
                       segmentArray, threshold, lastThreshold, numFailed,
                       lastTrackOK, drawAll, track, maxFailed, draw, debug,
                       image, result, call, calls, run, probes, held, heap,
                       srv, zb>>

SharedNext ==
    \/ \E name \in FirstFrames : First(name)
    \/ \E name \in SecondFrames : Second(name)

\* whole calls of the two instances, interleaved in any order
SharedSpec == SharedInit /\ [][SharedNext]_vars

\* C7: two instances share no state, so, with whole calls of the two
\* interleaved, each call returns what it returns when its instance runs
\* alone
C7_SameAsAlone ==
    /\ result = alone.a.result
    /\ other.result = alone.b.result

\* the last call failed in the Recovering state on a frame that does not
\* run the schedule
Retried ==
    /\ calls > 0 /\ ~result.valid
    /\ call.numFailed < maxFailed /\ ~call.probed

\* C11: in the Recovering state, on the failed frames that do not run the
\* schedule, the threshold after the call is a value that threshold held
\* before the call, also when no detection has succeeded yet
C11_RetryOfHeldThreshold == Retried => threshold \in call.held

\* the last call failed out of the Recovering state
FailedLost == calls > 0 /\ ~result.valid /\ call.numFailed >= maxFailed

\* C12 as stated: out of the Recovering state the sweep is the same as in
\* it: the schedule runs on every other failed frame (those that start
\* with an even count) and the previous threshold is retried in between
C12_LostAlternates ==
    FailedLost
        => IF call.numFailed % 2 = 0
           THEN call.probed
           ELSE ~call.probed /\ threshold = lastThreshold

\* C12 amended: out of the Recovering state the schedule runs on every
\* failed frame and assigns the point of the sweep for the new count; no
\* threshold is retried
C12_LostProbesEveryFrame ==
    FailedLost
        => /\ call.probed
           /\ threshold = LevelPoint(call.numFailed + 1)

\* a failed frame that starts with an odd count out of the Recovering
\* state of a detector with maxFailed > 0, and moves the threshold
C12_Witness ==
    /\ FailedLost /\ maxFailed > 0
    /\ call.numFailed % 2 = 1
    /\ threshold # call.threshold /\ threshold # lastThreshold
\* the index the claims expect a call to start its scan at
ExpectedStart ==
    IF call.init.valid /\ track
    THEN (call.init.y \div 1000) * W + (call.init.x \div 1000)
    ELSE 0

\* C13: a call in which no pair passed the ratio and concentricity tests
\* tested every pixel index exactly once: from the centre of the previous
\* result when that is valid and tracking is on (from 0 otherwise), one by
\* one, wrapping from the last index to 0, up to the index before the start
C13_FullScanOnce ==
    (calls > 0 /\ call.pairs = {})
        => call.order = [k \in 1 .. (W * H) |->
                            (ExpectedStart + k - 1) % (W * H)]

\* such a call that started at the centre of a previous detection
C13_Witness ==
    /\ calls > 0 /\ call.pairs = {}
    /\ call.init.valid /\ track
    /\ call.order[1] > 0 /\ call.order[W * H] = call.order[1] - 1
\* C14: after a call that returned valid=false every interior cell of the
\* label buffer is 0 and every border cell is -1000, as after construction
C14_FailureClearsBuffer ==
    (calls > 0 /\ ~result.valid) => buffer = FullClear(W, H)

\* a failed call, with tracking on, that had labelled segments of its frame
C14_Witness ==
    /\ calls > 0 /\ ~result.valid /\ track
    /\ \E p \in DOMAIN call.labels : call.labels[p] > 0

\* C15: with tracking disabled a call starts its scan at index 0 whatever
\* result is passed to it, and the label buffer is fully cleared when it
\* returns, also when it returns valid=true
C15_UntrackedFromOriginFullClear ==
    (calls > 0 /\ ~track)
        => /\ call.order[1] = 0
           /\ buffer = FullClear(W, H)

\* an untracked call that was passed a valid result, found the marker
\* alone in its frame and returned valid=true
C15_Witness ==
    /\ calls > 0 /\ ~track
    /\ call.init.valid /\ result.valid
    /\ numSegments = 2 /\ lastTrackOK
(***************************************************************************)
(* examineSegment on its own: one flood fill from a classified seed in a   *)
(* fully reset label buffer.                                               *)
(***************************************************************************)
FillFrames == {"uniform", "marker", "specks", "bar+marker"}
\* thresholds below, at and above the channel sums 60 and 600 of the frames
FillThresholds == {59, 60, 384, 600}

Interior(width, height) ==
    {p \in 0 .. (width * height - 1) :
        /\ p \div width > 0 /\ p \div width < height - 1
        /\ p % width > 0 /\ p % width < width - 1}

FillInit ==
    /\ buffer = FullClear(W, H)
    /\ queue = <<>>
    /\ queueStart = 0
    /\ queueEnd = 0
    /\ queueOldStart = 0
    /\ numSegments = 0
    /\ segmentArray = [i \in Slots |-> NoSegment]
    /\ threshold \in FillThresholds
    /\ lastThreshold \in Uninitialised
    /\ numFailed = 0
    /\ lastTrackOK = FALSE
    /\ drawAll = FALSE
    /\ track = TRUE
    /\ maxFailed = 0
    /\ draw = FALSE
    /\ debug = FALSE
    /\ image \in {FrameOf(name) : name \in FillFrames}
    /\ result = EmptyResult
    /\ call = NoCall
    /\ calls = 0
    /\ run = 0
    /\ probes = 0
    /\ held = {threshold}
    /\ other = <<>>
    /\ alone = <<>>
    /\ heap = <<>> /\ srv = <<>> /\ zb = <<>>

\* the fields after examineSegment left st
Examined1(st, ii) ==
    /\ buffer' = st.buffer
    /\ queue' = st.queue
    /\ queueStart' = st.queueStart
    /\ queueEnd' = st.queueEnd
    /\ queueOldStart' = st.queueOldStart
    /\ numSegments' = st.numSegments
    /\ segmentArray' = st.segmentArray
    /\ call' = [NoCall EXCEPT !.frame = image, !.order = <<ii>>]
    /\ calls' = 1
    /\ UNCHANGED <<threshold, lastThreshold, numFailed, lastTrackOK, drawAll,
                   track, maxFailed, draw, debug, image, result, run, probes,
                   held, other, alone, heap, srv, zb>>

\* the seed at ii is classified and examineSegment is called on it, with
\* the area ratio of a ring for a dark seed and of a disc for a light one
Examine(ii) ==
    /\ numSegments = 0
    /\ \E st \in {examineSegment(
                      [Detector EXCEPT
                          !.buffer = [@ EXCEPT ![ii] =
                                         Classify(image, ii, threshold)]],
                      image, ii,
                      IF Classify(image, ii, threshold) = -2
                      THEN outerAreaRatioMilli ELSE innerAreaRatioMilli,
                      W)} :
           Examined1(st, ii)

FillNext == \E ii \in Interior(W, H) : Examine(ii)

FillSpec == FillInit /\ [][FillNext]_vars

\* the cells of cells next to a cell of F
Beside(F, cells, width) ==
    {p \in cells : \/ p - 1 \in F \/ p + 1 \in F
                   \/ p - width \in F \/ p + width \in F}

\* S, its rim F and the cells of cells that F reaches by steps to a
\* 4-neighbour within cells
RECURSIVE Grow(_, _, _, _)
Grow(S, F, cells, width) ==
    IF F = {} THEN S
    ELSE Grow(S \cup F, Beside(F, cells, width) \ (S \cup F), cells, width)

\* the 4-connected component of seed within cells
Component(seed, cells, width) == Grow({}, {seed}, cells, width)

\* the interior pixels on the seed's side of the threshold
SeedClass(seed) ==
    {p \in Interior(W, H) :
        (Pix(image, p) <= threshold) = (Pix(image, seed) <= threshold)}

\* C16: from a fully reset label buffer, examineSegment gives the new
\* ordinal to exactly the 4-connected component of the seed among the
\* interior pixels of the seed's classification (channel sum <= threshold
\* for a dark seed, > threshold for a light one), and the size it reports
\* is the number of pixels it labelled
C16_FillLabelsComponent ==
    numSegments = 1
        => /\ {p \in DOMAIN buffer : buffer[p] = 1}
                  = Component(call.order[1], SeedClass(call.order[1]), W)
           /\ segmentArray[0].size
                  = Cardinality({p \in DOMAIN buffer : buffer[p] = 1})

\* a fill from a dark seed whose channel sum equals the threshold, which
\* labelled part of the interior only
C16_Witness ==
    /\ numSegments = 1
    /\ Pix(image, call.order[1]) = threshold
    /\ segmentArray[0].size > 1
    /\ \E p \in Interior(W, H) : buffer[p] # 1
\* C17: numSegments never exceeds MAX_SEGMENTS and the memory past the
\* last slot of segmentArray is left alone; no flood fill is started at
\* the cap (no label above MAX_SEGMENTS is given), the scan still runs to
\* its end, and a valid result is that of a pair examined within the cap
C17_SegmentCap ==
    /\ numSegments <= MAX_SEGMENTS
    /\ segmentArray[MAX_SEGMENTS] = NoSegment
    /\ calls > 0
        => /\ \A p \in DOMAIN call.labels : call.labels[p] <= MAX_SEGMENTS
           /\ call.pairs = {} => Len(call.order) = W * H
           /\ (call.pairs # {} /\ ~track) => Len(call.order) = W * H
           /\ result.valid
                  => \E i \in 1 .. (MAX_SEGMENTS - 1) :
                         /\ i < numSegments
                         /\ segmentArray[i - 1].valid
                         /\ segmentArray[i].valid
                         /\ result = segmentArray[i]

\* a call that met dark pixels at the cap, and left them unlabelled, after
\* it had validated a pair
C17_Witness ==
    /\ calls > 0 /\ numSegments = MAX_SEGMENTS
    /\ result.valid
    /\ \E k \in 1 .. Len(call.order) :
           /\ call.labels[call.order[k]] = -2
           /\ Pix(call.frame, call.order[k]) < call.threshold
\* the number of pixels that the last call labelled for slot i
Labelled(i) == Cardinality(Region(i + 1))

\* C18: a region of no more than minSize pixels is never marked round or
\* valid, and the returned result is that of a pair whose outer and inner
\* regions both have more than minSize pixels
C18_SmallRegionsRejected ==
    calls > 0
        => /\ \A i \in 0 .. (numSegments - 1) :
                  Labelled(i) <= minSize
                      => /\ ~segmentArray[i].round
                         /\ ~segmentArray[i].valid
           /\ result.valid
                  => \E i \in 1 .. (numSegments - 1) :
                         /\ result = segmentArray[i]
                         /\ Labelled(i) > minSize
                         /\ Labelled(i - 1) > minSize

\* a call that examined the cross, five pixels in a 3 x 3 box, before it
\* found the marker
C18_Witness ==
    /\ calls > 0 /\ result.valid
    /\ numSegments = 3
    /\ Labelled(0) = 5
    /\ segmentArray[0].size = 5
\* the last call was passed a new frame of that name
Passed(name) == calls > 0 /\ ~call.again /\ call.frame = FrameOf(name)

\* C19 as stated: the marker of a dark ring around a light disc and the one
\* of a light ring around a dark disc both yield valid=true
C19_BothPolarities ==
    (Passed("marker") \/ Passed("inverse")) => result.valid

\* C19 amended: the dark ring around a light disc yields valid=true, the
\* light ring around a dark disc on a dark ground yields valid=false, and
\* the outer region of every returned pair is darker than its inner one
C19_DarkRingOnly ==
    /\ Passed("marker") => result.valid
    /\ Passed("inverse") => ~result.valid
    /\ (calls > 0 /\ ~call.again /\ result.valid)
           => \E i \in 1 .. (numSegments - 1) :
                  /\ result = segmentArray[i]
                  /\ \A p \in Region(i) : \A q \in Region(i + 1) :
                         Pix(call.frame, p) < Pix(call.frame, q)

\* a call on the inverse marker that examined its dark disc, which is
\* large enough, and its dark ground
C19_Witness ==
    /\ Passed("inverse") /\ ~result.valid
    /\ \E i \in 0 .. (numSegments - 1) : Labelled(i) = 16
(***************************************************************************)
(* A detector with its debug and draw flags set as its owner likes, and a  *)
(* second one with both flags off that is passed the same frames.          *)
(***************************************************************************)
FlagFrames == {"uniform", "marker"}
FlagMaxFailed == {0, 2}

\* the configuration of the second detector
PlainConfig == [Config EXCEPT !.draw = FALSE, !.debug = FALSE]

FlagInit ==
    /\ Construct(BOOLEAN, FlagMaxFailed, BOOLEAN, BOOLEAN)
    /\ other = <<>>
    /\ alone = [d |-> Detector, result |-> EmptyResult]
    /\ heap = <<>> /\ srv = <<>> /\ zb = <<>>

\* both detectors are passed their own copy of a new frame
Both(name) ==
    /\ calls < MaxCalls
    /\ \E r \in {findSegment(Detector, FrameOf(name), result, Config)},
          s \in {findSegment(alone.d, FrameOf(name), alone.result,
                             PlainConfig)} :
           /\ Returned(r, FrameOf(name), FALSE, TRUE)
           /\ alone' = [d |-> s.d, result |-> s.result]
           /\ UNCHANGED <<other, heap, srv, zb>>

FlagNext == \E name \in FlagFrames : Both(name)

FlagSpec == FlagInit /\ [][FlagNext]_vars

\* C20: the debug and draw flags have no effect on detection: after every
\* call the detector returns the same result and holds the same threshold,
\* numFailed, lastTrackOK and label buffer as the one with both flags off
C20_FlagsLeaveDetectionAlone ==
    /\ result = alone.result
    /\ threshold = alone.d.threshold
    /\ numFailed = alone.d.numFailed
    /\ lastTrackOK = alone.d.lastTrackOK
    /\ buffer = alone.d.buffer

\* a detector with both flags on that failed on a frame, which set its
\* drawAll, and then found the marker and painted it into the frame
C20_Witness ==
    /\ calls > 1 /\ draw /\ debug
    /\ result.valid /\ ~call.before[1].result.valid
    /\ \E p \in DOMAIN image : image[p][1] = 255 \/ image[p][2] = 255
\* slot i holds the inner region of a pair of round regions that the last
\* call examined: a round light region, which is examined only after a
\* round dark one, in the slot before it
RoundPair(i) ==
    /\ calls > 0 /\ i >= 1 /\ i < numSegments
    /\ segmentArray[i - 1].round /\ segmentArray[i].round
    /\ segmentArray[i].type = 1

\* the size ratio of the regions o and i, divided by areasRatio, differs
\* from 1 by ratioTolerance or more
RatioOff(o, i) ==
    1000 * Abs(o * areasRatio.den - i * areasRatio.num)
        >= ratioToleranceMilli * i * areasRatio.num

\* C21: a pair of round regions whose size ratio over areasRatio differs
\* from 1 by ratioTolerance or more is rejected: neither slot is marked
\* valid, no fit is computed for the pair and the result is not taken
\* from it
C21_RatioRejects ==
    \A i \in 1 .. (MAX_SEGMENTS - 1) :
        (RoundPair(i) /\ RatioOff(Labelled(i - 1), Labelled(i)))
            => /\ ~segmentArray[i - 1].valid
               /\ ~segmentArray[i].valid
               /\ i \notin call.pairs
               /\ result.valid => result # segmentArray[i]

\* a ring of 22 pixels around a round disc of 11, examined as a pair
C21_Witness ==
    /\ RoundPair(1)
    /\ Labelled(0) = 22 /\ Labelled(1) = 11
    /\ RatioOff(Labelled(0), Labelled(1))
\* the sums of the columns and of the rows of a set of pixels
RECURSIVE ColSum(_)
ColSum(cells) ==
    IF cells = {} THEN 0
    ELSE LET p == CHOOSE q \in cells : TRUE
         IN  (p % W) + ColSum(cells \ {p})
RECURSIVE RowSum(_)
RowSum(cells) ==
    IF cells = {} THEN 0
    ELSE LET p == CHOOSE q \in cells : TRUE
         IN  (p \div W) + RowSum(cells \ {p})

\* mean column and mean row of a set of pixels, in thousandths
Centroid(cells) ==
    [x |-> (1000 * ColSum(cells)) \div Cardinality(cells),
     y |-> (1000 * RowSum(cells)) \div Cardinality(cells)]

\* the last call was passed a new frame and found a pair in it
Found == calls > 0 /\ ~call.again /\ result.valid

\* C22 as stated: on success the centre of the result is the centroid of
\* the pixels of the inner region
C22_CentreOfInner ==
    Found
        => /\ result.x = Centroid(Region(ResultSlot + 1)).x
           /\ result.y = Centroid(Region(ResultSlot + 1)).y

\* C22 amended: on success the centre of the result is the centroid of
\* the pixels of the outer and the inner region taken together
C22_CentreOfPair ==
    Found
        => /\ result.x
                  = Centroid(Region(ResultSlot) \cup Region(ResultSlot + 1)).x
           /\ result.y
                  = Centroid(Region(ResultSlot) \cup Region(ResultSlot + 1)).y

\* a pair found whose inner region has its centroid off that of the pair
C22_Witness ==
    /\ Found
    /\ Centroid(Region(ResultSlot + 1)).x
           # Centroid(Region(ResultSlot) \cup Region(ResultSlot + 1)).x
(***************************************************************************)
(* One call of a freshly constructed detector on a frame that holds one    *)
(* clean marker, placed anywhere it fits inside the border.                *)
(***************************************************************************)
\* dark and light gray levels whose channel sums lie on either side of
\* the constructor's threshold, far from it and next to it
PlaceLevels == {<<20, 200>>, <<100, 130>>, <<127, 129>>}

\* the top-left corners at which Ring fits inside the border
PlaceCorners(width, height) == (1 .. (width - 7)) \X (1 .. (height - 7))

\* the first frame the detector is passed
Place(corner, levels) ==
    /\ calls = 0
    /\ Call(Frame(Ring(corner[1], corner[2]), levels[1], levels[2], W, H),
            FALSE, FALSE)

PlaceNext ==
    \E corner \in PlaceCorners(W, H), levels \in PlaceLevels :
        Place(corner, levels)

PlaceSpec == Init /\ [][PlaceNext]_vars

\* the corner of the marker in the frame the last call was passed
PlacedAt(corner) ==
    /\ calls > 0
    /\ \E levels \in PlaceLevels :
           call.frame = Frame(Ring(corner[1], corner[2]),
                              levels[1], levels[2], W, H)

\* C23: on a frame with one clean marker of the configured diameter ratio,
\* on a contrasting ground and with the threshold between the two levels,
\* the call of a freshly constructed detector returns valid=true with a
\* centre within one pixel, in x and in y, of the marker's centre, which
\* lies 2.5 pixels from the corner of its 6 x 6 ring
C23_CleanMarkerFound ==
    \A corner \in PlaceCorners(W, H) :
        PlacedAt(corner)
            => /\ result.valid
               /\ Abs(result.x - (1000 * corner[1] + 2500)) <= 1000
               /\ Abs(result.y - (1000 * corner[2] + 2500)) <= 1000

\* the marker found in the far corner of the frame, at levels whose channel
\* sums are next to the threshold
C23_Witness ==
    /\ PlacedAt(<<W - 7, H - 7>>)
    /\ Pix(call.frame, 0) = 387
    /\ result.valid
\* the pixels the last call labelled
NewlyLabelled ==
    {p \in DOMAIN call.labels : call.labels[p] > 0 /\ p \notin call.stale}

\* C24: every call comes to its end within bounds: the scan loop runs at
\* most len times, and the fills of one call queue each pixel at most once
\* (as many pushes as pixels labelled), so no more than len pixels in all
C24_WorkBounded ==
    calls > 0
        => /\ Len(call.order) <= W * H
           /\ call.pushed = Cardinality(NewlyLabelled)
           /\ call.pushed <= W * H

\* a call that scanned the whole frame and filled the marker and as many
\* other segments as segmentArray holds
C24_Witness ==
    /\ calls > 0 /\ Len(call.order) = W * H
    /\ numSegments = MAX_SEGMENTS
    /\ call.pushed >= 36
\* the radii of the clean marker of the frames: between half the side of
\* the square (3 and 2 pixels) and the radius of the disc of equal area
\* (3.385 and 2.257), in thousandths
OuterRadius == [lo |-> 3000, hi |-> 3385]
InnerRadius == [lo |-> 2000, hi |-> 2257]

\* a lies within a tenth of the radius
Matches(a, radius) ==
    /\ 10 * a >= 9 * radius.lo
    /\ 10 * a <= 11 * radius.hi

\* C25: for a marker whose radii satisfy the configured diameter ratio, the
\* semi-axis lengths of the result match the outer and the inner radius
\* within a small tolerance
C25_AxesMatchRadii ==
    \A corner \in PlaceCorners(W, H) :
        (PlacedAt(corner) /\ result.valid)
            => /\ \E a \in {result.m0, result.m1} : Matches(a, OuterRadius)
               /\ \E a \in {result.m0, result.m1} : Matches(a, InnerRadius)
\* p lies on the first or last row or column of the frame
OnBorder(p) ==
    \/ p \div W = 0 \/ p \div W = H - 1
    \/ p % W = 0 \/ p % W = W - 1

\* the cells of labels that hold -1000 are those of the border
BorderOnly(labels) ==
    \A p \in 0 .. (W * H - 1) : (labels[p] = BORDER) <=> OnBorder(p)

\* C26: the border cells of the label buffer hold -1000 and the interior
\* cells never do, when the scan and the fills of a call are over and
\* after its cleanup; so every cell a fill labelled, whose neighbours it
\* read, lies in the interior, and every index the scan tested in [0, len)
C26_BorderKept ==
    /\ BorderOnly(buffer)
    /\ calls > 0
        => /\ BorderOnly(call.labels)
           /\ \A p \in NewlyLabelled : ~OnBorder(p)
           /\ \A k \in 1 .. Len(call.order) :
                  call.order[k] \in 0 .. (W * H - 1)

\* a tracking call that started at the centre of a marker next to the
\* right border, found it again and ended with the local cleanup
C26_Witness ==
    /\ calls > 1 /\ track /\ lastTrackOK
    /\ call.init.valid /\ call.order[1] > 0
    /\ result.valid /\ result.maxx = W - 2
\* C27: a pixel whose channel sum equals the threshold is dark for the scan
\* as it is for the fills: in a call that kept its threshold, scanned the
\* whole frame from a fully reset buffer and stayed below the cap, every
\* such interior pixel seeded a region or was filled into one
C27_EqualSeedsDark ==
    (/\ calls > 0 /\ ~call.again /\ call.stale = {}
     /\ call.pairs = {} /\ numSegments < MAX_SEGMENTS)
        => \A p \in 0 .. (W * H - 1) :
               (~OnBorder(p) /\ Pix(call.frame, p) = call.threshold)
                   => call.labels[p] > 0
\* the thresholds the last call compared pixels with: the one it started
\* with and, if it found a pair, the one it calibrated
ScanThresholds ==
    {call.threshold} \cup (IF result.valid THEN {threshold} ELSE {})

Filled == {p \in DOMAIN buffer : buffer[p] = 1}

\* C29: for a region of more than minSize pixels the bounding box that
\* examineSegment records is exact: minx, maxx, miny and maxy are the
\* least and the greatest column and row of the pixels given its label
C29_BoxExact ==
    (numSegments = 1 /\ segmentArray[0].size > minSize)
        => /\ \A p \in Filled :
                  /\ segmentArray[0].minx <= p % W
                  /\ p % W <= segmentArray[0].maxx
                  /\ segmentArray[0].miny <= p \div W
                  /\ p \div W <= segmentArray[0].maxy
           /\ \E p \in Filled : p % W = segmentArray[0].minx
           /\ \E p \in Filled : p % W = segmentArray[0].maxx
           /\ \E p \in Filled : p \div W = segmentArray[0].miny
           /\ \E p \in Filled : p \div W = segmentArray[0].maxy

\* the ring, filled from the seed at its bottom right corner
C29_Witness ==
    /\ numSegments = 1 /\ segmentArray[0].size = 20
    /\ call.order[1] % W = segmentArray[0].maxx
    /\ call.order[1] \div W = segmentArray[0].maxy
    /\ segmentArray[0].minx = segmentArray[0].maxx - 5
    /\ segmentArray[0].miny = segmentArray[0].maxy - 5
\* the cells queue[from, to), as a set
QueueCells(from, to) == {queue[k] : k \in (from + 1) .. to}

\* the last fill of the call was the fill of the inside of a candidate
InnerFilled == numSegments >= 2 /\ queueOldStart > 0

Span(S) ==
    (CHOOSE m \in S : \A x \in S : x <= m)
        - (CHOOSE m \in S : \A x \in S : m <= x) + 1

\* the area of the bounding box of a set of pixels
BoxArea(cells) ==
    Span({p % W : p \in cells}) * Span({p \div W : p \in cells})

\* the roundness score, in thousandths, of the region of slot i, with the
\* area ratio of a ring for a dark region and of a disc for a light one
Score(i) ==
    (BoxArea(Region(i + 1))
         * (IF segmentArray[i].type = 2 THEN outerAreaRatioMilli
                                        ELSE innerAreaRatioMilli))
        \div Labelled(i)

\* C31: examineSegment marks a region round exactly when it has more than
\* minSize pixels and its roundness score, box width * box height *
\* expected area ratio / size, differs from 1.0 by less than
\* circularTolerance; a light region is examined only as the inside of
\* the dark region examined just before it, which was marked round
C31_RoundExactly ==
    calls > 0
        => \A i \in Examined :
               /\ segmentArray[i].round
                      <=> /\ Labelled(i) > minSize
                          /\ Score(i) - circularToleranceMilli < 1000
                          /\ Score(i) + circularToleranceMilli > 1000
               /\ (Labelled(i) > minSize /\ segmentArray[i].type = 1)
                      => /\ i >= 1
                         /\ segmentArray[i - 1].round
                         /\ segmentArray[i - 1].type = 2

\* a call that examined a large dark region too sparse to be round, with
\* nothing examined inside it, and then a ring with its disc
C31_Witness ==
    /\ calls > 0
    /\ \E i \in Examined :
           /\ Labelled(i) > minSize /\ ~segmentArray[i].round
           /\ segmentArray[i].type = 2
           /\ Score(i) - circularToleranceMilli >= 1000
           /\ i + 2 \in Examined /\ RoundPair(i + 2)
\* C32: changeThreshold with failure count n >= 1 sets threshold to
\* 3 * (step * (n - div) + step / 2), where div is the largest power of two
\* not above n and step = 256 / div in integer arithmetic, and returns true
\* exactly when step > 16, that is for n <= 15; the return value shows in
\* the count the controller keeps or resets out of the Recovering state
C32_ScheduleFormula ==
    (calls > 0 /\ ~result.valid /\ call.probed)
        => /\ threshold
                  = 3 * ((256 \div Level(call.numFailed + 1))
                             * (call.numFailed + 1 - Level(call.numFailed + 1))
                         + (256 \div Level(call.numFailed + 1)) \div 2)
           /\ (256 \div Level(call.numFailed + 1) > 16)
                  <=> call.numFailed + 1 <= 15
           /\ call.numFailed >= maxFailed
                  => numFailed = IF call.numFailed + 1 <= 15
                                 THEN call.numFailed + 1 ELSE 0

\* the schedule ran with count 18: div 16, step 16, threshold 3 * 40, and
\* returned false
C32_Witness ==
    /\ calls > 0 /\ ~result.valid /\ call.probed
    /\ call.numFailed + 1 = 18
    /\ threshold = 120 /\ numFailed = 0
\* C34: after a call that ends with the local reset (a valid result of a
\* tracking detector whose call examined the pair alone), every cell the
\* call classified or labelled is 0 again: all interior cells of the label
\* buffer are 0, wherever the matched ring lies
C34_LocalResetClearsAll ==
    (calls > 0 /\ result.valid /\ track /\ lastTrackOK)
        => \A p \in DOMAIN buffer : OnBorder(p) \/ buffer[p] = 0
\* C35: at every call boundary threshold lies in the channel-sum range
\* [0, 765], for every maxFailed and every sequence of successful and
\* failed frames: no path assigns it a value outside the range or a value
\* that was never set
C35_ThresholdInRange == threshold >= 0 /\ threshold <= 765
\* C36: at every call boundary 0 <= numFailed <= max(maxFailed, 15), for
\* every sequence of successful and failed frames
C36_FailuresBounded ==
    /\ numFailed >= 0
    /\ numFailed <= Max2(maxFailed, 15)

\* the count at its bound, for a detector with maxFailed below 15 and for
\* one with maxFailed above
C36_Witness ==
    /\ calls > 0 /\ ~result.valid
    /\ numFailed = Max2(maxFailed, 15)
    /\ call.numFailed = numFailed - 1
    /\ maxFailed \in {2, 17}
(***************************************************************************)
(* The life of the instances.  buffer and queue are static and start as    *)
(* NULL; the first constructor that finds buffer NULL allocates both and   *)
(* owns them, and the destructor of an owner frees them without resetting  *)
(* the pointers.  Two instances of the same frame size with tracking off:  *)
(* instance 1 keeps its fields in the detector's variables, instance 2 in  *)
(* other, each as its constructor sets them.  heap.stray counts the calls  *)
(* that ran on freed memory, heap.doubles the frees of freed memory.       *)
(***************************************************************************)
Instances == {1, 2}
LifeFrames == {"uniform", "marker"}

NoHeap ==
    [state |-> "null", built |-> {}, live |-> {}, own |-> {}, frees |-> 0,
     doubles |-> 0, uses |-> 0, stray |-> 0]

LifeInit ==
    /\ Construct({FALSE}, {0}, {FALSE}, {FALSE})
    /\ other = [d |-> [Detector EXCEPT !.buffer = <<>>, !.queue = <<>>,
                                       !.queueEnd = 0],
                result |-> EmptyResult]
    /\ alone = <<>>
    /\ heap = NoHeap /\ srv = <<>> /\ zb = <<>>

\* the constructor of instance i: if (buffer == NULL) it allocates buffer
\* and queue, owns them and clears the buffer
Build(i) ==
    /\ i \notin heap.built
    /\ heap' = [heap EXCEPT !.built = @ \cup {i}, !.live = @ \cup {i},
                            !.own = IF heap.state = "null"
                                    THEN @ \cup {i} ELSE @,
                            !.state = IF @ = "null" THEN "allocated" ELSE @]
    /\ buffer' = IF heap.state = "null" THEN FullClear(W, H) ELSE buffer
    /\ UNCHANGED <<queue, queueStart, queueEnd, queueOldStart, numSegments,
                   segmentArray, threshold, lastThreshold, numFailed,
                   lastTrackOK, drawAll, track, maxFailed, draw, debug,
                   image, result, call, calls, run, probes, held, other,
                   alone, srv, zb>>

\* the destructor of instance i: if (ownBuffer) it frees buffer and queue
Destroy(i) ==
    /\ i \in heap.live
    /\ heap' = [heap EXCEPT !.live = @ \ {i},
                            !.frees = IF i \in heap.own THEN @ + 1 ELSE @,
                            !.doubles = IF i \in heap.own
                                           /\ heap.state = "freed"
                                        THEN @ + 1 ELSE @,
                            !.state = IF i \in heap.own THEN "freed" ELSE @]
    /\ UNCHANGED <<buffer, queue, queueStart, queueEnd, queueOldStart,
                   numSegments, segmentArray, threshold, lastThreshold,
                   numFailed, lastTrackOK, drawAll, track, maxFailed, draw,
                   debug, image, result, call, calls, run, probes, held,
                   other, alone, srv, zb>>

\* what the cells that buffer points to may hold when a call starts: what
\* the last call left or, once the memory is freed, also what another
\* user of the memory wrote
Cells ==
    IF heap.state = "freed"
    THEN {buffer, [p \in DOMAIN buffer |-> 1]}
    ELSE {buffer}

\* heap after one more call through the static pointers
Used == [heap EXCEPT !.uses = @ + 1,
                     !.stray = IF heap.state = "freed" THEN @ + 1 ELSE @]

\* a findSegment call of the live instance i
Use(i, name) ==
    /\ i \in heap.live /\ heap.uses < MaxCalls
    /\ heap' = Used
    /\ \E cells \in Cells :
           IF i = 1
           THEN \E r \in {findSegment([Detector EXCEPT !.buffer = cells],
                                      FrameOf(name), result, Config)} :
                    /\ Returned(r, FrameOf(name), FALSE, FALSE)
                    /\ UNCHANGED <<other, alone, srv, zb>>
           ELSE \E r \in {findSegment([other.d EXCEPT !.buffer = cells,
                                                      !.queue = queue],
                                      FrameOf(name), other.result,
                                      Config)} :
                    /\ buffer' = r.d.buffer
                    /\ queue' = Overlay(r.d.queue, queue)
                    /\ other' = [d |-> [r.d EXCEPT !.buffer = <<>>,
                                                   !.queue = <<>>],
                                 result |-> r.result]
                    /\ UNCHANGED <<queueStart, queueEnd, queueOldStart,
                                   numSegments, segmentArray, threshold,
                                   lastThreshold, numFailed, lastTrackOK,
                                   drawAll, track, maxFailed, draw, debug,
                                   image, result, call, calls, run, probes,
                                   held, alone, srv, zb>>

LifeNext ==
    \/ \E i \in Instances : Build(i)
    \/ \E i \in Instances : Destroy(i)
    \/ \E i \in Instances, name \in LifeFrames : Use(i, name)

\* instances constructed, used and destroyed in any order
LifeSpec == LifeInit /\ [][LifeNext]_vars

\* C37: the static buffer and queue are allocated whenever a live instance
\* uses them: for every order of constructing and destroying instances, no
\* findSegment call of a live instance runs on a buffer that was freed, and
\* no buffer is freed twice
C37_BufferLiveWhenUsed == heap.stray = 0 /\ heap.doubles = 0
(***************************************************************************)
(* The image server of the laser scan controller.  The controller's        *)
(* thread runs startVideoStream, tick and stopVideoStream; connectLoop     *)
(* runs in a thread of its own and starts one serverLoop thread for each   *)
(* connection it accepts.  srv.sent counts the images sent, srv.posts the  *)
(* posts of tick, srv.stray the images sent from the deleted mosaic.       *)
(***************************************************************************)
\* the descriptors accept returns and the threads connectLoop creates
Sockets == {4, 5}
Threads == {1, 2}
\* the posts of tick that are followed
MaxPosts == 3

\* the detector's variables
detector == <<buffer, queue, queueStart, queueEnd, queueOldStart,
              numSegments, segmentArray, threshold, lastThreshold,
              numFailed, lastTrackOK, drawAll, track, maxFailed, draw,
              debug, image, result, call, calls, run, probes, held, other,
              alone>>

NoThread == [pc |-> "none", socket |-> -1, msg |-> 0]

\* before startVideoStream: no mosaic, no server
NoServer ==
    [ctrl |-> "idle", streaming |-> FALSE, image |-> "none", sem |-> 0,
     posts |-> 0, sent |-> 0, stray |-> 0, stop |-> FALSE,
     mySocket |-> -1, conn |-> "none", newServer |-> 0, accepted |-> {},
     threads |-> [t \in Threads |-> NoThread]]

ServerInit ==
    /\ Construct({FALSE}, {0}, {FALSE}, {FALSE})
    /\ other = <<>>
    /\ alone = <<>>
    /\ heap = <<>> /\ zb = <<>>
    /\ srv = NoServer

\* startVideoStream: the mosaic is allocated, the semaphore initialised to
\* 0, the server constructed on both and its connectLoop started
StartVideoStream ==
    /\ srv.ctrl = "idle"
    /\ srv' = [srv EXCEPT !.ctrl = "streaming", !.image = "live", !.sem = 0,
                          !.stop = FALSE, !.conn = "accept",
                          !.streaming = TRUE]
    /\ UNCHANGED <<detector, heap, zb>>

\* tick: if (streaming) the mosaic is composed and the semaphore posted
Tick ==
    /\ srv.ctrl = "streaming" /\ srv.streaming
    /\ srv.posts < MaxPosts
    /\ srv' = [srv EXCEPT !.sem = @ + 1, !.posts = @ + 1]
    /\ UNCHANGED <<detector, heap, zb>>

\* stopVideoStream, first half: delete mosaic_image
StopDelete ==
    /\ srv.ctrl = "streaming"
    /\ srv' = [srv EXCEPT !.ctrl = "stopping", !.image = "freed"]
    /\ UNCHANGED <<detector, heap, zb>>

\* stopVideoStream, second half: stopServer sets stop; streaming = false
StopFlag ==
    /\ srv.ctrl = "stopping"
    /\ srv' = [srv EXCEPT !.ctrl = "stopped", !.stop = TRUE,
                          !.streaming = FALSE]
    /\ UNCHANGED <<detector, heap, zb>>

\* connectLoop: while (!server->stop) accept returns a new connection
Accept(s) ==
    /\ srv.conn = "accept" /\ ~srv.stop
    /\ s \in Sockets \ srv.accepted
    /\ srv' = [srv EXCEPT !.newServer = s, !.accepted = @ \cup {s},
                          !.conn = "publish"]
    /\ UNCHANGED <<detector, heap, zb>>

\* connectLoop: the loop ends once stop is set
Leave ==
    /\ srv.conn = "accept" /\ srv.stop
    /\ srv' = [srv EXCEPT !.conn = "done"]
    /\ UNCHANGED <<detector, heap, zb>>

\* connectLoop: server->mySocket = newServer, under connectSem
Publish ==
    /\ srv.conn = "publish"
    /\ srv' = [srv EXCEPT !.mySocket = srv.newServer, !.conn = "create"]
    /\ UNCHANGED <<detector, heap, zb>>

\* connectLoop: pthread_create of a serverLoop thread
Create(t) ==
    /\ srv.conn = "create"
    /\ srv.threads[t].pc = "none"
    /\ \A u \in Threads : u < t => srv.threads[u].pc # "none"
    /\ srv' = [srv EXCEPT !.threads[t].pc = "start", !.conn = "accept"]
    /\ UNCHANGED <<detector, heap, zb>>

\* serverLoop: info.socket = server->mySocket, under connectSem
ReadSocket(t) ==
    /\ srv.threads[t].pc = "start"
    /\ srv' = [srv EXCEPT !.threads[t].socket = srv.mySocket,
                          !.threads[t].pc = "loop"]
    /\ UNCHANGED <<detector, heap, zb>>

\* serverLoop: while (connected && !server->stop)
Loop(t) ==
    /\ srv.threads[t].pc = "loop"
    /\ srv' = [srv EXCEPT !.threads[t].pc =
                              IF srv.stop THEN "close" ELSE "recv"]
    /\ UNCHANGED <<detector, heap, zb>>

\* serverLoop: checkForMessage returns 0 for a byte of the client and 1
\* when the client is gone
CheckForMessage(t, msg) ==
    /\ srv.threads[t].pc = "recv"
    /\ srv' = [srv EXCEPT !.threads[t].msg = msg, !.threads[t].pc = "wait"]
    /\ UNCHANGED <<detector, heap, zb>>

\* sem_wait that does not wait
CanPassAlways(sem) == TRUE

\* sem_wait returns when the semaphore's value is above 0
CanPass(sem) == sem > 0

\* serverLoop: sem_wait(info.sem)
SemWait(t) ==
    /\ srv.threads[t].pc = "wait"
    /\ CanPass(srv.sem)
    /\ srv' = [srv EXCEPT !.sem = IF @ > 0 THEN @ - 1 ELSE @,
                          !.threads[t].pc = "send"]
    /\ UNCHANGED <<detector, heap, zb>>

\* serverLoop: sendImage reads image->data; then if (msg == 1) the loop ends
SendImage(t) ==
    /\ srv.threads[t].pc = "send"
    /\ srv' = [srv EXCEPT !.sent = @ + 1,
                          !.stray = IF srv.image = "freed" THEN @ + 1 ELSE @,
                          !.threads[t].pc =
                              IF srv.threads[t].msg = 1 THEN "close"
                                                        ELSE "loop"]
    /\ UNCHANGED <<detector, heap, zb>>

\* serverLoop: closeConnection(info.socket) and the thread's end
CloseConnection(t) ==
    /\ srv.threads[t].pc = "close"
    /\ srv' = [srv EXCEPT !.threads[t].pc = "done"]
    /\ UNCHANGED <<detector, heap, zb>>

ServerNext ==
    \/ StartVideoStream
    \/ Tick
    \/ StopDelete
    \/ StopFlag
    \/ \E s \in Sockets : Accept(s)
    \/ Leave
    \/ Publish
    \/ \E t \in Threads : Create(t)
    \/ \E t \in Threads : ReadSocket(t)
    \/ \E t \in Threads : Loop(t)
    \/ \E t \in Threads, msg \in {0, 1} : CheckForMessage(t, msg)
    \/ \E t \in Threads : SemWait(t)
    \/ \E t \in Threads : SendImage(t)
    \/ \E t \in Threads : CloseConnection(t)

\* the controller, connectLoop and the serverLoop threads, interleaved
ServerSpec == ServerInit /\ [][ServerNext]_vars

Serving(s) ==
    {t \in Threads : /\ srv.threads[t].pc \notin {"none", "start"}
                     /\ srv.threads[t].socket = s}

\* connectLoop has started a thread for every connection it accepted, and
\* every thread has taken its socket
Settled ==
    /\ srv.conn \in {"accept", "done"}
    /\ \A t \in Threads : srv.threads[t].pc # "start"

\* C38: each connection accepted by connectLoop is served by exactly one
\* serverLoop thread that uses that connection's own socket: under every
\* interleaving no two threads serve the same socket and no accepted
\* socket is left without a thread
C38_OneThreadPerSocket ==
    /\ \A s \in Sockets : Cardinality(Serving(s)) <= 1
    /\ Settled => \A s \in srv.accepted : Serving(s) # {}

\* C39: the image server never sends from the mosaic image after
\* stopVideoStream has deleted it, whatever a serverLoop thread was doing
\* when stopVideoStream ran
C39_NoSendAfterDelete == srv.stray = 0
(***************************************************************************)
(* The ZigBee packing of CMessage.  A message is its type, its len and its *)
(* data.  An int is four bytes in memory, a uint64_t eight, the least      *)
(* significant first; len is an int.  A block of bytes is written as the   *)
(* sequence head of its first bytes and the number pad of zero bytes that  *)
(* follow them; NULL is the block of no bytes.                             *)
(***************************************************************************)
\* the position of MSG_ZIGBEE_MSG among the message types
MSG_ZIGBEE_MSG == 43
\* the largest int
INT_MAX == 2147483647
\* the longest payload whose bytes are all chosen
MaxLen == 2

ByteValues == {0, 7, 255}
Tags == {0, 258, INT_MAX}
Types == {0, MSG_ZIGBEE_MSG, 65537, -1}
\* payload lengths for which sizeof(uint64_t) + sizeof(int) + len is no int
LongLens == {INT_MAX - 11, INT_MAX}

\* the n low bytes of v >= 0, least significant first
RECURSIVE LowBytes(_, _)
LowBytes(v, n) ==
    IF n = 0 THEN <<>> ELSE <<v % 256>> \o LowBytes(v \div 256, n - 1)

Complement(bytes) == [i \in DOMAIN bytes |-> 255 - bytes[i]]

\* the four bytes of an int in memory
IntBytes(v) ==
    IF v >= 0 THEN LowBytes(v, 4) ELSE Complement(LowBytes(-v - 1, 4))

RECURSIVE Unsigned(_)
Unsigned(bytes) ==
    IF bytes = <<>> THEN 0 ELSE bytes[1] + 256 * Unsigned(Tail(bytes))

\* the int that four bytes in memory hold
IntOf(bytes) ==
    IF bytes[4] >= 128 THEN -Unsigned(Complement(bytes)) - 1
    ELSE Unsigned(bytes)

\* sizeof(uint64_t) + sizeof(int) + len, converted to int
PackedLen(len) ==
    IF len > INT_MAX - 12
    THEN (len - INT_MAX) + (12 - INT_MAX) - 2
    ELSE 12 + len

\* len - sizeof(uint64_t) - sizeof(int), converted to int
UnpackedLen(len) ==
    IF len < 12 - INT_MAX - 1
    THEN (len + INT_MAX) + (INT_MAX - 12) + 2
    ELSE len - 12

NULL == [head |-> <<>>, pad |-> 0]

\* the first n bytes of a block, for n no less than its chosen bytes
Block(data, n) == [head |-> data.head, pad |-> n - Len(data.head)]

\* CMessage(): type MSG_NONE, data NULL, len 0
NoMessage == [type |-> 0, data |-> NULL, len |-> 0]

\* the ZigBee message of tag, type and payload.  Where the packed length
\* is negative, refused tells whether new uint8_t[message.len] throws;
\* where it does not, the bytes are copied as for any other length
packToZBMessage(ubitag, type, data, len, refused) ==
    IF PackedLen(len) < 0 /\ refused
    THEN [thrown |-> TRUE, message |-> NoMessage]
    ELSE [thrown |-> FALSE,
          message |-> [type |-> MSG_ZIGBEE_MSG, len |-> PackedLen(len),
                       data |-> [head |-> LowBytes(ubitag, 8)
                                              \o IntBytes(type)
                                              \o data.head,
                                 pad |-> Block(data, len).pad]]]

\* unpackZBMessage that takes the payload one byte early
unpackZBMessageEarly(ZBmessage) ==
    [len |-> UnpackedLen(ZBmessage.len),
     data |-> IF UnpackedLen(ZBmessage.len) > 0
              THEN [head |-> SubSeq(ZBmessage.data.head, 12,
                                    Len(ZBmessage.data.head) - 1),
                    pad |-> ZBmessage.data.pad]
              ELSE NULL,
     type |-> IntOf(SubSeq(ZBmessage.data.head, 9, 12))]

\* the message that a ZigBee message carries
unpackZBMessage(ZBmessage) ==
    [len |-> UnpackedLen(ZBmessage.len),
     data |-> IF UnpackedLen(ZBmessage.len) > 0
              THEN [head |-> SubSeq(ZBmessage.data.head, 13,
                                    Len(ZBmessage.data.head)),
                    pad |-> ZBmessage.data.pad]
              ELSE NULL,
     type |-> IntOf(SubSeq(ZBmessage.data.head, 9, 12))]

\* the byte sequences of up to n bytes
RECURSIVE Payloads(_)
Payloads(n) ==
    IF n = 0 THEN {<<>>}
    ELSE Payloads(n - 1)
             \cup {Append(d, b) : d \in {e \in Payloads(n - 1) :
                                            Len(e) = n - 1},
                                  b \in ByteValues}

\* the arguments of a call of packToZBMessage: short payloads, and long
\* ones that are zero after their first byte
Inputs ==
    {[tag |-> tag, type |-> type, data |-> Block([head |-> d, pad |-> 0],
                                                 Len(d)),
      len |-> Len(d)] :
        tag \in Tags, type \in Types, d \in Payloads(MaxLen)}
    \cup {[tag |-> tag, type |-> type,
           data |-> Block([head |-> <<7>>, pad |-> 0], len),
           len |-> len] :
             tag \in Tags, type \in Types, len \in LongLens}

ZbInit ==
    /\ Construct({FALSE}, {0}, {FALSE}, {FALSE})
    /\ other = <<>>
    /\ alone = <<>>
    /\ heap = <<>> /\ srv = <<>>
    /\ \E in \in Inputs :
           zb = [stage |-> "input", in |-> in, thrown |-> FALSE,
                 packed |-> NoMessage, out |-> NoMessage]

\* the sender packs
Pack ==
    /\ zb.stage = "input"
    /\ \E refused \in BOOLEAN :
           \E r \in {packToZBMessage(zb.in.tag, zb.in.type, zb.in.data,
                                     zb.in.len, refused)} :
               zb' = [zb EXCEPT !.stage = IF r.thrown THEN "done"
                                                      ELSE "packed",
                                !.thrown = r.thrown, !.packed = r.message]
    /\ UNCHANGED <<detector, heap, srv>>

\* the receiver unpacks
Unpack ==
    /\ zb.stage = "packed"
    /\ zb' = [zb EXCEPT !.stage = "done", !.out = unpackZBMessage(zb.packed)]
    /\ UNCHANGED <<detector, heap, srv>>

ZbNext == Pack \/ Unpack

\* one message packed and unpacked
ZbSpec == ZbInit /\ [][ZbNext]_vars

\* the message that came out is the one that went in
SameMessage ==
    /\ ~zb.thrown
    /\ zb.out.type = zb.in.type
    /\ zb.out.len = zb.in.len
    /\ zb.out.data = zb.in.data

\* C40 as stated: unpackZBMessage(packToZBMessage(tag, type, data, len))
\* returns a message with the original type, the original len and the
\* original len payload bytes in order, for every tag and every len >= 0
\* (data NULL when len = 0)
C40_RoundTrip == zb.stage = "done" => SameMessage

\* C40 amended: the same for every tag and every len from 0 to
\* INT_MAX - 12, the lengths for which the packed length is an int
C40_RoundTripThatFits ==
    (zb.stage = "done" /\ zb.in.len <= INT_MAX - 12) => SameMessage

\* a payload of two bytes and a negative type came through
C40_Witness ==
    /\ zb.stage = "done" /\ ~zb.thrown
    /\ zb.in.type = -1 /\ zb.in.len = 2
    /\ zb.out.data = [head |-> <<255, 7>>, pad |-> 0]
    /\ zb.packed.len = 14

=============================================================================
